---- MODULE Spec2Model ----
(***************************************************************************)
(* The PMGraph graph state engine: the Zustand store of nodes, edges,      *)
(* selection, filters, preset and group state with its bounded undo/redo   *)
(* history (src/src/store/usePMGraphStore.ts), the entity factory          *)
(* (src/unnamed/part_009) and the preset registry (src/src/utils/presets). *)
(*                                                                         *)
(* JavaScript values are modelled as follows.  Ids are strings; the ids    *)
(* crypto.randomUUID() returns are "u1", "u2", ... in order of generation, *)
(* so an id is never handed out twice.  undefined and null are the strings *)
(* "undefined" and "null", which no generated id equals.  Arrays are       *)
(* sequences, objects are records, Set<string> is a set.  Fields that are  *)
(* the same constant on every node or edge and that no handler reads       *)
(* (dragHandle, style, the edge's type "typed") are left out.              *)
(***************************************************************************)
EXTENDS Integers, Sequences, FiniteSets, TLC

VARIABLES
    nodes,            \* Node[]
    edges,            \* Edge[]
    selectedNodeId,   \* string | null
    filters,          \* Filters
    activePresetId,   \* string
    collapsedGroups,  \* Set<string>
    taskPanelOpen,    \* boolean
    past,             \* _past: HistorySlice[]
    future,           \* _future: HistorySlice[]
    nextId,           \* how many ids crypto.randomUUID() has handed out, plus one
    log               \* the calls made so far: operation, arguments, store before the call

vars == <<nodes, edges, selectedNodeId, filters, activePresetId,
          collapsedGroups, taskPanelOpen, past, future, nextId, log>>

\* ---------------------------------------------------------------- bounds

\* Calls made on the constructed store under Spec and SpecEdges.
MaxSteps == 4

\* Calls made on the constructed store under SpecDelete.
MaxDeleteSteps == 6

\* Ids crypto.randomUUID() hands out under SpecDeep.
MaxDeepIds == 3

\* Calls made on the constructed store under SpecFilter.
MaxFilterSteps == 4

\* Calls made on the constructed store under SpecGesture.
MaxGestureSteps == 6

\* Calls made on the constructed store, and nodes it holds, under SpecMove.
MaxMoveSteps == 5
MaxMoveNodes == 3

\* Calls made on the constructed store under SpecView.
MaxViewSteps == 12

\* Groups, nodes (the groups among them) and edges the store holds under SpecView,
\* and calls of toggleGroupCollapse made.
MaxViewGroups == 2
MaxViewNodes == 4
MaxViewEdges == 2
MaxViewToggles == 3
MaxCanvasSteps == 9
MaxCanvasNodes == 3
MaxCanvasEdges == 3

\* Calls made on the constructed store, and nodes it holds, under SpecGraph.
MaxGraphSteps == 5
MaxGraphNodes == 2

\* Calls made on the constructed store under SpecFrame.
MaxFrameSteps == 7

\* ------------------------------------------------------------- constants

MAX_HISTORY == 50
EDGE_TYPE_CYCLE == <<"blocks", "relates", "triggers">>

PRESETS == <<
    [id |-> "gamedev",
     categories |-> <<"Programming", "Art", "Design", "Audio", "QA">>],
    [id |-> "startup",
     categories |-> <<"Engineering", "Product", "Design", "Marketing", "Ops">>],
    [id |-> "personal",
     categories |-> <<"Work", "Personal", "Health", "Learning">>] >>

defaultFilters == [departments |-> <<>>, priority |-> "", assignee |-> "", search |-> ""]

\* --------------------------------------------------------------- helpers

Range(s) == {s[i] : i \in 1..Len(s)}

Min(a, b) == IF a < b THEN a ELSE b
Max(a, b) == IF a > b THEN a ELSE b

\* Array.prototype.slice(-n), n > 0: the last n elements
SliceLast(s, n) == IF Len(s) <= n THEN s ELSE SubSeq(s, Len(s) - n + 1, Len(s))

\* Array.prototype.slice(0, n): the first n elements
SliceFirst(s, n) == SubSeq(s, 1, Min(Len(s), n))

\* Object spread { ...d, ...p }: the keys of p win
Spread(d, p) == [k \in (DOMAIN d) \cup (DOMAIN p) |-> IF k \in DOMAIN p THEN p[k] ELSE d[k]]

\* a ?? null
OrNull(a) == IF a = "undefined" THEN "null" ELSE a

\* the n-th id crypto.randomUUID() returns
Uuid(n) == "u" \o ToString(n)

generateId == Uuid(nextId)

\* Array.prototype.find by id: the first node with that id, or "undefined"
FindNode(ns, id) ==
    IF \E i \in 1..Len(ns) : ns[i].id = id
    THEN ns[CHOOSE i \in 1..Len(ns) : ns[i].id = id /\ \A j \in 1..(i - 1) : ns[j].id # id]
    ELSE "undefined"

HasNode(ns, id) == \E i \in 1..Len(ns) : ns[i].id = id

\* ------------------------------------------------------- entity factory

\* createDefaultNode spreading the defaults over the supplied data
createDefaultNode_DefaultsWin(id, position, data) ==
    [id |-> id,
     type |-> "task",
     position |-> position,
     parentId |-> "undefined",
     hidden |-> "undefined",
     data |-> Spread(data, [title |-> "Untitled", description |-> "", priority |-> "medium",
                            department |-> "", labels |-> <<>>, assignee |-> "",
                            dueDate |-> "null"])]

createDefaultNode(id, position, data) ==
    [id |-> id,
     type |-> "task",
     position |-> position,
     parentId |-> "undefined",
     hidden |-> "undefined",
     data |-> Spread([title |-> "Untitled", description |-> "", priority |-> "medium",
                      department |-> "", labels |-> <<>>, assignee |-> "",
                      dueDate |-> "null"], data)]

createGroupNode(id, position, title, color) ==
    [id |-> id,
     type |-> "group",
     position |-> position,
     parentId |-> "undefined",
     hidden |-> "undefined",
     data |-> [title |-> title, color |-> color, collapsed |-> FALSE]]

getPresetById(id) ==
    IF \E i \in 1..Len(PRESETS) : PRESETS[i].id = id
    THEN PRESETS[CHOOSE i \in 1..Len(PRESETS) : PRESETS[i].id = id]
    ELSE PRESETS[1]

\* ------------------------------------------------------ history manager

HistorySlice == [nodes |-> nodes, edges |-> edges]

\* pushHistory never evicting the oldest slice
pushHistory_NoEviction(p, current) == p \o <<current>>

pushHistory(p, current) == SliceLast(p, MAX_HISTORY - 1) \o <<current>>

\* ------------------------------------------------------------- the store

Init ==
    /\ nodes = <<>>
    /\ edges = <<>>
    /\ selectedNodeId = "null"
    /\ filters = defaultFilters
    /\ activePresetId = "gamedev"
    /\ collapsedGroups = {}
    /\ taskPanelOpen = FALSE
    /\ past = <<>>
    /\ future = <<>>
    /\ nextId = 1
    /\ log = <<>>

\* addNode forgetting to clear the redo stack
addNode_KeepsFuture(position, data) ==
    /\ past' = pushHistory(past, HistorySlice)
    /\ nodes' = Append(nodes, createDefaultNode(generateId, position, data))
    /\ nextId' = nextId + 1
    /\ UNCHANGED <<edges, selectedNodeId, filters, activePresetId, collapsedGroups,
                   taskPanelOpen, future>>

addNode(position, data) ==
    /\ past' = pushHistory(past, HistorySlice)
    /\ future' = <<>>
    /\ nodes' = Append(nodes, createDefaultNode(generateId, position, data))
    /\ nextId' = nextId + 1
    /\ UNCHANGED <<edges, selectedNodeId, filters, activePresetId, collapsedGroups,
                   taskPanelOpen>>

updateNode(id, data) ==
    /\ past' = pushHistory(past, HistorySlice)
    /\ future' = <<>>
    /\ nodes' = [i \in 1..Len(nodes) |->
                    IF nodes[i].id = id
                    THEN [nodes[i] EXCEPT !.data = Spread(nodes[i].data, data)]
                    ELSE nodes[i]]
    /\ UNCHANGED <<edges, selectedNodeId, filters, activePresetId, collapsedGroups,
                   taskPanelOpen, nextId>>

\* deleteNode dropping only the edges that leave the node
deleteNode_KeepsIncoming(id) ==
    /\ past' = pushHistory(past, HistorySlice)
    /\ future' = <<>>
    /\ nodes' = SelectSeq(nodes, LAMBDA n : n.id # id)
    /\ edges' = SelectSeq(edges, LAMBDA e : e.source # id)
    /\ selectedNodeId' = IF selectedNodeId = id THEN "null" ELSE selectedNodeId
    /\ taskPanelOpen' = IF selectedNodeId = id THEN FALSE ELSE taskPanelOpen
    /\ UNCHANGED <<filters, activePresetId, collapsedGroups, nextId>>

deleteNode(id) ==
    /\ past' = pushHistory(past, HistorySlice)
    /\ future' = <<>>
    /\ nodes' = SelectSeq(nodes, LAMBDA n : n.id # id)
    /\ edges' = SelectSeq(edges, LAMBDA e : e.source # id /\ e.target # id)
    /\ selectedNodeId' = IF selectedNodeId = id THEN "null" ELSE selectedNodeId
    /\ taskPanelOpen' = IF selectedNodeId = id THEN FALSE ELSE taskPanelOpen
    /\ UNCHANGED <<filters, activePresetId, collapsedGroups, nextId>>

setNodePosition(id, position) ==
    /\ nodes' = [i \in 1..Len(nodes) |->
                    IF nodes[i].id = id THEN [nodes[i] EXCEPT !.position = position]
                    ELSE nodes[i]]
    /\ UNCHANGED <<edges, selectedNodeId, filters, activePresetId, collapsedGroups,
                   taskPanelOpen, past, future, nextId>>

setSelectedNode(id) ==
    /\ selectedNodeId' = id
    /\ UNCHANGED <<nodes, edges, filters, activePresetId, collapsedGroups,
                   taskPanelOpen, past, future, nextId>>

\* ---- group actions

addGroupNode(position, title, color) ==
    /\ past' = pushHistory(past, HistorySlice)
    /\ future' = <<>>
    /\ nodes' = Append(nodes, createGroupNode(generateId, position, title, color))
    /\ nextId' = nextId + 1
    /\ UNCHANGED <<edges, selectedNodeId, filters, activePresetId, collapsedGroups,
                   taskPanelOpen>>

\* toggleGroupCollapse that collapses but never expands again
toggleGroupCollapse_NeverExpands(groupId) ==
    /\ past' = pushHistory(past, HistorySlice)
    /\ future' = <<>>
    /\ nodes' = [i \in 1..Len(nodes) |->
                    IF nodes[i].id = groupId /\ nodes[i].type = "group"
                    THEN [nodes[i] EXCEPT !.data = Spread(nodes[i].data, [collapsed |-> TRUE])]
                    ELSE IF nodes[i].parentId = groupId
                    THEN [nodes[i] EXCEPT !.hidden = "true"]
                    ELSE nodes[i]]
    /\ collapsedGroups' = collapsedGroups \cup {groupId}
    /\ UNCHANGED <<edges, selectedNodeId, filters, activePresetId, taskPanelOpen,
                   nextId>>

toggleGroupCollapse(groupId) ==
    LET isCollapsed == groupId \in collapsedGroups
        collapsed == IF isCollapsed THEN collapsedGroups \ {groupId}
                     ELSE collapsedGroups \cup {groupId}
    IN  /\ past' = pushHistory(past, HistorySlice)
        /\ future' = <<>>
        /\ nodes' = [i \in 1..Len(nodes) |->
                        IF nodes[i].id = groupId /\ nodes[i].type = "group"
                        THEN [nodes[i] EXCEPT !.data =
                                 Spread(nodes[i].data, [collapsed |-> ~isCollapsed])]
                        ELSE IF nodes[i].parentId = groupId
                        THEN [nodes[i] EXCEPT !.hidden =
                                 IF ~isCollapsed THEN "true" ELSE "false"]
                        ELSE nodes[i]]
        /\ collapsedGroups' = collapsed
        /\ UNCHANGED <<edges, selectedNodeId, filters, activePresetId, taskPanelOpen,
                       nextId>>

\* moveNodeToGroup returns the state untouched when the node is missing or is a
\* group, or when a group id is given and names no node.
moveNodeToGroupRejected(nodeId, groupId) ==
    \/ ~HasNode(nodes, nodeId)
    \/ FindNode(nodes, nodeId).type = "group"
    \/ groupId # "undefined" /\ ~HasNode(nodes, groupId)

\* moveNodeToGroup recording a history slice before it tests its arguments
moveNodeToGroup_SnapshotsFirst(nodeId, groupId) ==
    IF moveNodeToGroupRejected(nodeId, groupId)
    THEN /\ past' = pushHistory(past, HistorySlice)
         /\ future' = <<>>
         /\ UNCHANGED <<nodes, edges, selectedNodeId, filters, activePresetId,
                        collapsedGroups, taskPanelOpen, nextId>>
    ELSE LET node == FindNode(nodes, nodeId)
             parent == IF groupId # "undefined" THEN FindNode(nodes, groupId)
                       ELSE IF HasNode(nodes, node.parentId)
                       THEN FindNode(nodes, node.parentId)
                       ELSE [position |-> [x |-> 0, y |-> 0]]
             position == IF groupId # "undefined"
                         THEN [x |-> Max(10, node.position.x - parent.position.x),
                               y |-> Max(40, node.position.y - parent.position.y)]
                         ELSE [x |-> node.position.x + parent.position.x,
                               y |-> node.position.y + parent.position.y]
         IN  /\ past' = pushHistory(past, HistorySlice)
             /\ future' = <<>>
             /\ nodes' = [i \in 1..Len(nodes) |->
                            IF nodes[i].id = nodeId
                            THEN [nodes[i] EXCEPT !.parentId = groupId,
                                                  !.position = position]
                            ELSE nodes[i]]
             /\ UNCHANGED <<edges, selectedNodeId, filters, activePresetId,
                            collapsedGroups, taskPanelOpen, nextId>>

moveNodeToGroup(nodeId, groupId) ==
    IF moveNodeToGroupRejected(nodeId, groupId)
    THEN UNCHANGED <<nodes, edges, selectedNodeId, filters, activePresetId,
                     collapsedGroups, taskPanelOpen, past, future, nextId>>
    ELSE LET node == FindNode(nodes, nodeId)
         IN  /\ past' = pushHistory(past, HistorySlice)
             /\ future' = <<>>
             /\ IF groupId # "undefined"
                THEN LET group == FindNode(nodes, groupId)
                         relX == node.position.x - group.position.x
                         relY == node.position.y - group.position.y
                     IN  nodes' = [i \in 1..Len(nodes) |->
                                    IF nodes[i].id = nodeId
                                    THEN [nodes[i] EXCEPT
                                             !.parentId = groupId,
                                             !.position = [x |-> Max(10, relX),
                                                           y |-> Max(40, relY)]]
                                    ELSE nodes[i]]
                ELSE LET hasParent == HasNode(nodes, node.parentId)
                         absX == node.position.x +
                                 (IF hasParent THEN FindNode(nodes, node.parentId).position.x
                                  ELSE 0)
                         absY == node.position.y +
                                 (IF hasParent THEN FindNode(nodes, node.parentId).position.y
                                  ELSE 0)
                     IN  nodes' = [i \in 1..Len(nodes) |->
                                    IF nodes[i].id = nodeId
                                    THEN [nodes[i] EXCEPT
                                             !.parentId = "undefined",
                                             !.position = [x |-> absX, y |-> absY]]
                                    ELSE nodes[i]]
             /\ UNCHANGED <<edges, selectedNodeId, filters, activePresetId,
                            collapsedGroups, taskPanelOpen, nextId>>

\* ---- edge actions

\* The duplicate test of addEdge: strict equality of the request's fields with the
\* stored edge's, the handles compared as given (an omitted handle is undefined).
duplicate(connection) ==
    \E i \in 1..Len(edges) :
        /\ edges[i].source = connection.source
        /\ edges[i].target = connection.target
        /\ edges[i].sourceHandle = connection.sourceHandle
        /\ edges[i].targetHandle = connection.targetHandle

\* newEdge starting the new edge at the second type of the cycle
newEdge_StartsAtRelates(id, connection) ==
    [id |-> id,
     source |-> connection.source,
     target |-> connection.target,
     sourceHandle |-> OrNull(connection.sourceHandle),
     targetHandle |-> OrNull(connection.targetHandle),
     data |-> [edgeType |-> "relates"]]

newEdge(id, connection) ==
    [id |-> id,
     source |-> connection.source,
     target |-> connection.target,
     sourceHandle |-> OrNull(connection.sourceHandle),
     targetHandle |-> OrNull(connection.targetHandle),
     data |-> [edgeType |-> "blocks"]]

\* addEdge without the self-loop test
addEdge_NoSelfLoopTest(connection) ==
    IF duplicate(connection)
    THEN UNCHANGED <<nodes, edges, selectedNodeId, filters, activePresetId,
                     collapsedGroups, taskPanelOpen, past, future, nextId>>
    ELSE /\ past' = pushHistory(past, HistorySlice)
         /\ future' = <<>>
         /\ edges' = Append(edges, newEdge(generateId, connection))
         /\ nextId' = nextId + 1
         /\ UNCHANGED <<nodes, selectedNodeId, filters, activePresetId,
                        collapsedGroups, taskPanelOpen>>

addEdge(connection) ==
    IF connection.source = connection.target \/ duplicate(connection)
    THEN UNCHANGED <<nodes, edges, selectedNodeId, filters, activePresetId,
                     collapsedGroups, taskPanelOpen, past, future, nextId>>
    ELSE /\ past' = pushHistory(past, HistorySlice)
         /\ future' = <<>>
         /\ edges' = Append(edges, newEdge(generateId, connection))
         /\ nextId' = nextId + 1
         /\ UNCHANGED <<nodes, selectedNodeId, filters, activePresetId,
                        collapsedGroups, taskPanelOpen>>

\* removeEdge recording the edges as they are after the removal
removeEdge_SnapshotsAfter(id) ==
    /\ edges' = SelectSeq(edges, LAMBDA e : e.id # id)
    /\ past' = pushHistory(past, [nodes |-> nodes, edges |-> edges'])
    /\ future' = <<>>
    /\ UNCHANGED <<nodes, selectedNodeId, filters, activePresetId, collapsedGroups,
                   taskPanelOpen, nextId>>

removeEdge(id) ==
    /\ past' = pushHistory(past, HistorySlice)
    /\ future' = <<>>
    /\ edges' = SelectSeq(edges, LAMBDA e : e.id # id)
    /\ UNCHANGED <<nodes, selectedNodeId, filters, activePresetId, collapsedGroups,
                   taskPanelOpen, nextId>>

\* Array.prototype.indexOf on EDGE_TYPE_CYCLE, 0-based, -1 when absent
indexOfEdgeType(t) ==
    IF \E i \in 1..Len(EDGE_TYPE_CYCLE) : EDGE_TYPE_CYCLE[i] = t
    THEN (CHOOSE i \in 1..Len(EDGE_TYPE_CYCLE) : EDGE_TYPE_CYCLE[i] = t) - 1
    ELSE -1

\* nextEdgeType walking the cycle backwards
nextEdgeType_Backwards(current) ==
    EDGE_TYPE_CYCLE[((indexOfEdgeType(current) + Len(EDGE_TYPE_CYCLE) - 1)
                        % Len(EDGE_TYPE_CYCLE)) + 1]

nextEdgeType(current) ==
    EDGE_TYPE_CYCLE[((indexOfEdgeType(current) + 1) % Len(EDGE_TYPE_CYCLE)) + 1]

cycleEdgeType(edgeId) ==
    /\ past' = pushHistory(past, HistorySlice)
    /\ future' = <<>>
    /\ edges' = [i \in 1..Len(edges) |->
                    IF edges[i].id # edgeId THEN edges[i]
                    ELSE [edges[i] EXCEPT !.data =
                             Spread(edges[i].data,
                                    [edgeType |-> nextEdgeType(edges[i].data.edgeType)])]]
    /\ UNCHANGED <<nodes, selectedNodeId, filters, activePresetId, collapsedGroups,
                   taskPanelOpen, nextId>>

setEdgeType(edgeId, edgeType) ==
    /\ past' = pushHistory(past, HistorySlice)
    /\ future' = <<>>
    /\ edges' = [i \in 1..Len(edges) |->
                    IF edges[i].id = edgeId
                    THEN [edges[i] EXCEPT !.data =
                             Spread(edges[i].data, [edgeType |-> edgeType])]
                    ELSE edges[i]]
    /\ UNCHANGED <<nodes, selectedNodeId, filters, activePresetId, collapsedGroups,
                   taskPanelOpen, nextId>>

\* ---- filter, preset and UI actions (no history snapshot)

\* setFilters treated as a structural edit: it records a history slice
setFilters_Snapshots(partial) ==
    /\ filters' = Spread(filters, partial)
    /\ past' = pushHistory(past, HistorySlice)
    /\ future' = <<>>
    /\ UNCHANGED <<nodes, edges, selectedNodeId, activePresetId, collapsedGroups,
                   taskPanelOpen, nextId>>

setFilters(partial) ==
    /\ filters' = Spread(filters, partial)
    /\ UNCHANGED <<nodes, edges, selectedNodeId, activePresetId, collapsedGroups,
                   taskPanelOpen, past, future, nextId>>

clearFilters ==
    /\ filters' = defaultFilters
    /\ UNCHANGED <<nodes, edges, selectedNodeId, activePresetId, collapsedGroups,
                   taskPanelOpen, past, future, nextId>>

\* setPreset resetting the department of every task, also one the new preset has
setPreset_ResetsAll(presetId) ==
    /\ activePresetId' = presetId
    /\ filters' = Spread(filters, [departments |-> <<>>])
    /\ nodes' = [i \in 1..Len(nodes) |->
                    IF nodes[i].type # "task" THEN nodes[i]
                    ELSE [nodes[i] EXCEPT !.data =
                             Spread(nodes[i].data, [department |-> ""])]]
    /\ UNCHANGED <<edges, selectedNodeId, collapsedGroups, taskPanelOpen, past,
                   future, nextId>>

setPreset(presetId) ==
    LET categoryNames == Range(getPresetById(presetId).categories)
    IN  /\ activePresetId' = presetId
        /\ filters' = Spread(filters, [departments |-> <<>>])
        /\ nodes' = [i \in 1..Len(nodes) |->
                        IF nodes[i].type # "task" THEN nodes[i]
                        ELSE IF nodes[i].data.department = ""
                                \/ nodes[i].data.department \in categoryNames
                        THEN nodes[i]
                        ELSE [nodes[i] EXCEPT !.data =
                                 Spread(nodes[i].data, [department |-> ""])]]
        /\ UNCHANGED <<edges, selectedNodeId, collapsedGroups, taskPanelOpen, past,
                       future, nextId>>

setTaskPanelOpen(open) ==
    /\ taskPanelOpen' = open
    /\ UNCHANGED <<nodes, edges, selectedNodeId, filters, activePresetId,
                   collapsedGroups, past, future, nextId>>

\* ---- history actions

\* undo putting the slice it restores, not the current state, on the redo stack
undo_PushesRestored ==
    IF Len(past) = 0
    THEN UNCHANGED <<nodes, edges, selectedNodeId, filters, activePresetId,
                     collapsedGroups, taskPanelOpen, past, future, nextId>>
    ELSE LET prev == past[Len(past)]
         IN  /\ past' = SubSeq(past, 1, Len(past) - 1)
             /\ future' = <<prev>> \o SliceFirst(future, MAX_HISTORY - 1)
             /\ nodes' = prev.nodes
             /\ edges' = prev.edges
             /\ UNCHANGED <<selectedNodeId, filters, activePresetId, collapsedGroups,
                            taskPanelOpen, nextId>>

\* undo restoring the oldest slice of past instead of the newest
undo_RestoresOldest ==
    IF Len(past) = 0
    THEN UNCHANGED <<nodes, edges, selectedNodeId, filters, activePresetId,
                     collapsedGroups, taskPanelOpen, past, future, nextId>>
    ELSE LET prev == past[1]
         IN  /\ past' = SubSeq(past, 1, Len(past) - 1)
             /\ future' = <<HistorySlice>> \o SliceFirst(future, MAX_HISTORY - 1)
             /\ nodes' = prev.nodes
             /\ edges' = prev.edges
             /\ UNCHANGED <<selectedNodeId, filters, activePresetId, collapsedGroups,
                            taskPanelOpen, nextId>>

\* undo clearing the selection and closing the task panel
undo_ClearsSelection ==
    IF Len(past) = 0
    THEN UNCHANGED <<nodes, edges, selectedNodeId, filters, activePresetId,
                     collapsedGroups, taskPanelOpen, past, future, nextId>>
    ELSE LET prev == past[Len(past)]
         IN  /\ past' = SubSeq(past, 1, Len(past) - 1)
             /\ future' = <<HistorySlice>> \o SliceFirst(future, MAX_HISTORY - 1)
             /\ nodes' = prev.nodes
             /\ edges' = prev.edges
             /\ selectedNodeId' = "null"
             /\ taskPanelOpen' = FALSE
             /\ UNCHANGED <<filters, activePresetId, collapsedGroups, nextId>>

\* undo restoring the nodes of the slice and keeping the edges of the store
undo_RestoresNodesOnly ==
    IF Len(past) = 0
    THEN UNCHANGED <<nodes, edges, selectedNodeId, filters, activePresetId,
                     collapsedGroups, taskPanelOpen, past, future, nextId>>
    ELSE LET prev == past[Len(past)]
         IN  /\ past' = SubSeq(past, 1, Len(past) - 1)
             /\ future' = <<HistorySlice>> \o SliceFirst(future, MAX_HISTORY - 1)
             /\ nodes' = prev.nodes
             /\ UNCHANGED <<edges, selectedNodeId, filters, activePresetId,
                            collapsedGroups, taskPanelOpen, nextId>>

undo ==
    IF Len(past) = 0
    THEN UNCHANGED <<nodes, edges, selectedNodeId, filters, activePresetId,
                     collapsedGroups, taskPanelOpen, past, future, nextId>>
    ELSE LET prev == past[Len(past)]
         IN  /\ past' = SubSeq(past, 1, Len(past) - 1)
             /\ future' = <<HistorySlice>> \o SliceFirst(future, MAX_HISTORY - 1)
             /\ nodes' = prev.nodes
             /\ edges' = prev.edges
             /\ UNCHANGED <<selectedNodeId, filters, activePresetId, collapsedGroups,
                            taskPanelOpen, nextId>>

\* redo recording a snapshot before it looks whether there is anything to redo
redo_SnapshotsFirst ==
    IF Len(future) = 0
    THEN /\ past' = pushHistory(past, HistorySlice)
         /\ UNCHANGED <<nodes, edges, selectedNodeId, filters, activePresetId,
                        collapsedGroups, taskPanelOpen, future, nextId>>
    ELSE LET next == future[1]
         IN  /\ past' = pushHistory(past, HistorySlice)
             /\ future' = Tail(future)
             /\ nodes' = next.nodes
             /\ edges' = next.edges
             /\ UNCHANGED <<selectedNodeId, filters, activePresetId, collapsedGroups,
                            taskPanelOpen, nextId>>

\* redo clearing the future stack, as a mutation does
redo_ClearsFuture ==
    IF Len(future) = 0
    THEN UNCHANGED <<nodes, edges, selectedNodeId, filters, activePresetId,
                     collapsedGroups, taskPanelOpen, past, future, nextId>>
    ELSE LET next == future[1]
         IN  /\ past' = pushHistory(past, HistorySlice)
             /\ future' = <<>>
             /\ nodes' = next.nodes
             /\ edges' = next.edges
             /\ UNCHANGED <<selectedNodeId, filters, activePresetId, collapsedGroups,
                            taskPanelOpen, nextId>>

redo ==
    IF Len(future) = 0
    THEN UNCHANGED <<nodes, edges, selectedNodeId, filters, activePresetId,
                     collapsedGroups, taskPanelOpen, past, future, nextId>>
    ELSE LET next == future[1]
         IN  /\ past' = pushHistory(past, HistorySlice)
             /\ future' = Tail(future)
             /\ nodes' = next.nodes
             /\ edges' = next.edges
             /\ UNCHANGED <<selectedNodeId, filters, activePresetId, collapsedGroups,
                            taskPanelOpen, nextId>>

\* ---- React Flow change handlers

\* React Flow's applyNodeChanges for changes of type "position": each change sets,
\* on the node it names, the position and the dragging flag it carries (a change
\* that carries no position has no position field).
RECURSIVE applyChanges(_, _)
applyChanges(n, changes) ==
    IF changes = <<>> THEN n
    ELSE LET c == Head(changes)
             moved == IF "position" \notin DOMAIN c THEN n
                      ELSE Spread(n, [position |-> c.position])
             m == IF c.id # n.id THEN n
                  ELSE IF c.dragging = "undefined" THEN moved
                  ELSE Spread(moved, [dragging |-> c.dragging])
         IN  applyChanges(m, Tail(changes))

applyNodeChanges(changes, ns) == [i \in 1..Len(ns) |-> applyChanges(ns[i], changes)]

hasDragEnd(changes) ==
    \E k \in 1..Len(changes) :
        changes[k].type = "position" /\ changes[k].dragging = "false"

\* onNodesChange recording a slice on every report
onNodesChange_SnapshotsEveryReport(changes) ==
    /\ past' = pushHistory(past, HistorySlice)
    /\ future' = <<>>
    /\ nodes' = applyNodeChanges(changes, nodes)
    /\ UNCHANGED <<edges, selectedNodeId, filters, activePresetId, collapsedGroups,
                   taskPanelOpen, nextId>>

onNodesChange(changes) ==
    IF hasDragEnd(changes)
    THEN /\ past' = pushHistory(past, HistorySlice)
         /\ future' = <<>>
         /\ nodes' = applyNodeChanges(changes, nodes)
         /\ UNCHANGED <<edges, selectedNodeId, filters, activePresetId,
                        collapsedGroups, taskPanelOpen, nextId>>
    ELSE /\ nodes' = applyNodeChanges(changes, nodes)
         /\ UNCHANGED <<edges, selectedNodeId, filters, activePresetId,
                        collapsedGroups, taskPanelOpen, past, future, nextId>>

\* ------------------------------------------------------------- selectors

UpperCase == "ABCDEFGHIJKLMNOPQRSTUVWXYZ"
LowerCase == "abcdefghijklmnopqrstuvwxyz"

\* String.prototype.toLowerCase on one character
toLowerCaseChar(c) ==
    IF \E k \in 1..Len(UpperCase) : SubSeq(UpperCase, k, k) = c
    THEN LET k == CHOOSE k \in 1..Len(UpperCase) : SubSeq(UpperCase, k, k) = c
         IN  SubSeq(LowerCase, k, k)
    ELSE c

\* String.prototype.toLowerCase
RECURSIVE toLowerCase(_)
toLowerCase(s) ==
    IF s = "" THEN ""
    ELSE toLowerCaseChar(SubSeq(s, 1, 1)) \o toLowerCase(SubSeq(s, 2, Len(s)))

\* String.prototype.includes
includes(s, sub) ==
    \E k \in 0..(Len(s) - Len(sub)) : SubSeq(s, k + 1, k + Len(sub)) = sub

\* getFilteredNodeIds whose fast path returns the task nodes only
getFilteredNodeIds_FastPathTasksOnly(ns, f) ==
    LET noFilters == /\ Len(f.departments) = 0 /\ f.priority = ""
                     /\ f.assignee = "" /\ f.search = ""
        searchLower == toLowerCase(f.search)
        matches(d) ==
            /\ Len(f.departments) = 0 \/ d.department \in Range(f.departments)
            /\ f.priority = "" \/ d.priority = f.priority
            /\ f.assignee = "" \/ includes(toLowerCase(d.assignee), toLowerCase(f.assignee))
            /\ \/ f.search = ""
               \/ includes(toLowerCase(d.title), searchLower)
               \/ includes(toLowerCase(d.assignee), searchLower)
    IN  IF noFilters THEN {ns[i].id : i \in {j \in 1..Len(ns) : ns[j].type = "task"}}
        ELSE {ns[i].id : i \in {j \in 1..Len(ns) :
                                   ns[j].type # "task" \/ matches(ns[j].data)}}

\* getFilteredNodeIds searching the text as typed, without lower-casing the node's
\* title and assignee
getFilteredNodeIds_CaseSensitive(ns, f) ==
    LET noFilters == /\ Len(f.departments) = 0 /\ f.priority = ""
                     /\ f.assignee = "" /\ f.search = ""
        searchLower == toLowerCase(f.search)
        matches(d) ==
            /\ Len(f.departments) = 0 \/ d.department \in Range(f.departments)
            /\ f.priority = "" \/ d.priority = f.priority
            /\ f.assignee = "" \/ includes(d.assignee, toLowerCase(f.assignee))
            /\ \/ f.search = ""
               \/ includes(d.title, searchLower)
               \/ includes(d.assignee, searchLower)
    IN  IF noFilters THEN {ns[i].id : i \in 1..Len(ns)}
        ELSE {ns[i].id : i \in {j \in 1..Len(ns) :
                                   ns[j].type # "task" \/ matches(ns[j].data)}}

getFilteredNodeIds(ns, f) ==
    LET noFilters == /\ Len(f.departments) = 0 /\ f.priority = ""
                     /\ f.assignee = "" /\ f.search = ""
        searchLower == toLowerCase(f.search)
        matches(d) ==
            /\ Len(f.departments) = 0 \/ d.department \in Range(f.departments)
            /\ f.priority = "" \/ d.priority = f.priority
            /\ f.assignee = "" \/ includes(toLowerCase(d.assignee), toLowerCase(f.assignee))
            /\ \/ f.search = ""
               \/ includes(toLowerCase(d.title), searchLower)
               \/ includes(toLowerCase(d.assignee), searchLower)
    IN  IF noFilters THEN {ns[i].id : i \in 1..Len(ns)}
        ELSE {ns[i].id : i \in {j \in 1..Len(ns) :
                                   ns[j].type # "task" \/ matches(ns[j].data)}}

\* the canvas' visibleIds, recomputed from the store on every render
visibleIds == getFilteredNodeIds(nodes, filters)

\* ------------------------------------ the canvas' derived edge view

EDGE_STRENGTH == [blocks |-> 3, triggers |-> 2, relates |-> 1]

\* childToGroup mapping every node with a parent, whether its group is collapsed or not
childToGroup_CollapsedOrNot(ns, cg) ==
    LET children == {i \in 1..Len(ns) : ns[i].parentId # "undefined"}
    IN  [id \in {ns[i].id : i \in children} |->
            ns[CHOOSE i \in children :
                  ns[i].id = id /\ \A j \in children : ns[j].id = id => j <= i].parentId]

\* The child -> group map of displayEdges: the nodes whose parentId is a collapsed
\* group, each mapped to that group (Map.set: the last node with an id wins).
childToGroup(ns, cg) ==
    LET children == {i \in 1..Len(ns) : ns[i].parentId # "undefined" /\ ns[i].parentId \in cg}
    IN  [id \in {ns[i].id : i \in children} |->
            ns[CHOOSE i \in children :
                  ns[i].id = id /\ \A j \in children : ns[j].id = id => j <= i].parentId]

\* Map.get: the group a node is remapped to, or undefined
remapped(m, id) == IF id \in DOMAIN m THEN m[id] ELSE "undefined"

\* (e.data as PMEdgeData)?.edgeType ?? "blocks"
edgeTypeOf(e) == IF "edgeType" \in DOMAIN e.data THEN e.data.edgeType ELSE "blocks"

\* realEdge dimming blockers like any other edge
realEdge_DimsBlockers(e, vis) ==
    LET visible == e.source \in vis /\ e.target \in vis
    IN  Spread(e, [style |-> [opacity |-> IF visible THEN "1" ELSE "0.1"]])

\* A stored edge that no collapse affects, with the opacity of the filters:
\* blockers are always opaque, other edges when both ends are visible.
realEdge(e, vis) ==
    LET visible == e.source \in vis /\ e.target \in vis
        isBlocker == edgeTypeOf(e) = "blocks"
    IN  Spread(e, [style |-> [opacity |-> IF isBlocker THEN "1"
                                          ELSE IF visible THEN "1" ELSE "0.1"]])

\* syntheticEdge leaving the first stored edge of a key uncounted
syntheticEdge_CountsFromZero(synSource, synTarget, edgeType) ==
    [id |-> "synthetic-" \o synSource \o "-" \o synTarget,
     source |-> synSource,
     target |-> synTarget,
     sourceHandle |-> "null",
     targetHandle |-> "null",
     data |-> [edgeType |-> edgeType, synthetic |-> TRUE, count |-> 0],
     style |-> [opacity |-> "1"]]

\* The synthetic edge created for the first stored edge of a key.
syntheticEdge(synSource, synTarget, edgeType) ==
    [id |-> "synthetic-" \o synSource \o "-" \o synTarget,
     source |-> synSource,
     target |-> synTarget,
     sourceHandle |-> "null",
     targetHandle |-> "null",
     data |-> [edgeType |-> edgeType, synthetic |-> TRUE, count |-> 1],
     style |-> [opacity |-> "1"]]

\* mergeSynthetic taking the type of the latest edge whatever its strength
mergeSynthetic_LastTypeWins(existing, edgeType) ==
    [existing EXCEPT !.data =
        Spread(existing.data, [count |-> existing.data.count + 1, edgeType |-> edgeType])]

\* mergeSynthetic keeping the type of the first stored edge of the key
mergeSynthetic_FirstTypeWins(existing, edgeType) ==
    [existing EXCEPT !.data = Spread(existing.data, [count |-> existing.data.count + 1])]

\* A further stored edge merged into the synthetic edge of its key.
mergeSynthetic(existing, edgeType) ==
    LET existingStrength == EDGE_STRENGTH[existing.data.edgeType]
        newStrength == EDGE_STRENGTH[edgeType]
    IN  [existing EXCEPT !.data =
            Spread(existing.data,
                   [count |-> existing.data.count + 1,
                    edgeType |-> IF newStrength > existingStrength THEN edgeType
                                 ELSE existing.data.edgeType])]

\* The loop of displayEdges over the stored edges es: acc.real collects the edges
\* passed through, acc.syn the values of syntheticMap in insertion order.
RECURSIVE aggregate(_, _, _, _)
aggregate(es, m, vis, acc) ==
    IF es = <<>> THEN acc
    ELSE LET e == Head(es)
             hasSynthetics == DOMAIN m # {}
             remappedSource == remapped(m, e.source)
             remappedTarget == remapped(m, e.target)
             synSource == IF remappedSource # "undefined" THEN remappedSource ELSE e.source
             synTarget == IF remappedTarget # "undefined" THEN remappedTarget ELSE e.target
             id == "synthetic-" \o synSource \o "-" \o synTarget
             exists == \E k \in 1..Len(acc.syn) : acc.syn[k].id = id
         IN  IF ~hasSynthetics
                \/ (remappedSource = "undefined" /\ remappedTarget = "undefined")
             THEN aggregate(Tail(es), m, vis,
                            [acc EXCEPT !.real = Append(@, realEdge(e, vis))])
             ELSE IF synSource = synTarget
             THEN aggregate(Tail(es), m, vis, acc)
             ELSE IF exists
             THEN aggregate(Tail(es), m, vis,
                            [acc EXCEPT !.syn =
                                [k \in 1..Len(@) |->
                                    IF @[k].id = id
                                    THEN mergeSynthetic(@[k], edgeTypeOf(e))
                                    ELSE @[k]]])
             ELSE aggregate(Tail(es), m, vis,
                            [acc EXCEPT !.syn =
                                Append(@, syntheticEdge(synSource, synTarget,
                                                        edgeTypeOf(e)))])

\* displayEdges as a function of its inputs
displayEdgesOf(ns, es, cg, vis) ==
    LET acc == aggregate(es, childToGroup(ns, cg), vis, [real |-> <<>>, syn |-> <<>>])
    IN  acc.real \o acc.syn

\* the canvas' displayEdges, recomputed from the store on every render
displayEdges == displayEdgesOf(nodes, edges, collapsedGroups, visibleIds)

\* onEdgesChange applying the changes to the edges the canvas renders
onEdgesChange_OnRenderedEdges(removed) ==
    /\ edges' = SelectSeq(displayEdgesOf(nodes, edges, collapsedGroups,
                                         getFilteredNodeIds(nodes, filters)),
                          LAMBDA e : e.id \notin removed)
    /\ UNCHANGED <<nodes, selectedNodeId, filters, activePresetId, collapsedGroups,
                   taskPanelOpen, past, future, nextId>>

\* The store's onEdgesChange, which the canvas is wired to, with the changes React
\* Flow emits for a deletion: applyEdgeChanges drops every edge a change of type
\* "remove" names.
onEdgesChange(removed) ==
    /\ edges' = SelectSeq(edges, LAMBDA e : e.id \notin removed)
    /\ UNCHANGED <<nodes, selectedNodeId, filters, activePresetId, collapsedGroups,
                   taskPanelOpen, past, future, nextId>>

\* ------------------------------------------------------------ the calls

\* The store as one value: what a caller can observe between two calls.
StoreState ==
    [nodes |-> nodes, edges |-> edges, selectedNodeId |-> selectedNodeId,
     filters |-> filters, activePresetId |-> activePresetId,
     collapsedGroups |-> collapsedGroups, taskPanelOpen |-> taskPanelOpen,
     past |-> past, future |-> future]

\* A call of operation op with arguments args, made on the current store; at most
\* bound calls are made.
Call(op, args, bound) ==
    /\ Len(log) < bound
    /\ log' = Append(log, [op |-> op, args |-> args, before |-> StoreState])

\* The same, keeping only the latest call in the log (for long runs).
CallLatest(op, args) ==
    log' = <<[op |-> op, args |-> args, before |-> StoreState]>>

\* The arguments the calls are made with.
Origin == [x |-> 0, y |-> 0]
NoData == [k \in {} |-> ""]
HighPriority == [priority |-> "high"]
NodeIds == {nodes[i].id : i \in 1..Len(nodes)}
GroupIds == {nodes[i].id : i \in {j \in 1..Len(nodes) : nodes[j].type = "group"}}
EdgeIds == {edges[i].id : i \in 1..Len(edges)}
\* an id of no node
MissingId == "missing"
\* the id the derived edge view gives the synthetic edge from s to t
SyntheticId(s, t) == "synthetic-" \o s \o "-" \o t
NodeIdArgs == NodeIds \cup {MissingId}
\* every id handed out so far: the ids of the nodes and edges that exist or existed
KnownIds == {Uuid(k) : k \in 1..(nextId - 1)}
EdgeIdArgs == EdgeIds \cup {SyntheticId(Uuid(1), Uuid(2))}
Connection(s, t, sh, th) ==
    [source |-> s, target |-> t, sourceHandle |-> sh, targetHandle |-> th]

\* ---- Spec: every structural mutation, undo and redo, from the constructed store

AddNodeCall ==
    /\ addNode(Origin, NoData)
    /\ Call("addNode", [position |-> Origin, data |-> NoData], MaxSteps)

UpdateNodeCall ==
    \E id \in NodeIdArgs :
        /\ updateNode(id, HighPriority)
        /\ Call("updateNode", [id |-> id, data |-> HighPriority], MaxSteps)

DeleteNodeCall ==
    \E id \in NodeIdArgs : deleteNode(id) /\ Call("deleteNode", [id |-> id], MaxSteps)

SetSelectedNodeCall ==
    \E id \in NodeIds :
        setSelectedNode(id) /\ Call("setSelectedNode", [id |-> id], MaxSteps)

AddGroupNodeCall ==
    /\ addGroupNode(Origin, "New Group", "#6b7280")
    /\ Call("addGroupNode",
            [position |-> Origin, title |-> "New Group", color |-> "#6b7280"], MaxSteps)

ToggleGroupCollapseCall ==
    \E id \in GroupIds \cup {MissingId} :
        toggleGroupCollapse(id) /\ Call("toggleGroupCollapse", [groupId |-> id], MaxSteps)

MoveNodeToGroupCall ==
    \E id \in NodeIdArgs, g \in GroupIds \cup {MissingId, "undefined"} :
        /\ moveNodeToGroup(id, g)
        /\ Call("moveNodeToGroup", [nodeId |-> id, groupId |-> g], MaxSteps)

AddEdgeCall ==
    \E s \in NodeIds, t \in NodeIds :
        /\ addEdge(Connection(s, t, "null", "null"))
        /\ Call("addEdge", Connection(s, t, "null", "null"), MaxSteps)

RemoveEdgeCall ==
    \E id \in EdgeIdArgs : removeEdge(id) /\ Call("removeEdge", [id |-> id], MaxSteps)

CycleEdgeTypeCall ==
    \E id \in EdgeIdArgs :
        cycleEdgeType(id) /\ Call("cycleEdgeType", [edgeId |-> id], MaxSteps)

SetEdgeTypeCall ==
    \E id \in EdgeIdArgs :
        /\ setEdgeType(id, "triggers")
        /\ Call("setEdgeType", [edgeId |-> id, edgeType |-> "triggers"], MaxSteps)

UndoCall == undo /\ Call("undo", NoData, MaxSteps)

RedoCall == redo /\ Call("redo", NoData, MaxSteps)

Next ==
    \/ AddNodeCall
    \/ UpdateNodeCall
    \/ DeleteNodeCall
    \/ AddGroupNodeCall
    \/ ToggleGroupCollapseCall
    \/ MoveNodeToGroupCall
    \/ AddEdgeCall
    \/ RemoveEdgeCall
    \/ CycleEdgeTypeCall
    \/ SetEdgeTypeCall
    \/ SetSelectedNodeCall
    \/ UndoCall
    \/ RedoCall

Spec == Init /\ [][Next]_vars

\* ---- SpecEdges: the edge operations, with every form of handle

\* the handles of a connection request: left out, null, identifiers
HandlePairs == {<<"undefined", "undefined">>, <<"null", "null">>, <<"out", "in">>}

EdgesAddNodeCall ==
    /\ addNode(Origin, NoData)
    /\ Call("addNode", [position |-> Origin, data |-> NoData], MaxSteps)

EdgesAddEdgeCall ==
    \E s \in NodeIds, t \in NodeIds, h \in HandlePairs :
        /\ addEdge(Connection(s, t, h[1], h[2]))
        /\ Call("addEdge", Connection(s, t, h[1], h[2]), MaxSteps)

EdgesRemoveEdgeCall ==
    \E id \in EdgeIdArgs : removeEdge(id) /\ Call("removeEdge", [id |-> id], MaxSteps)

EdgesCycleEdgeTypeCall ==
    \E id \in EdgeIds :
        cycleEdgeType(id) /\ Call("cycleEdgeType", [edgeId |-> id], MaxSteps)

EdgesDeleteNodeCall ==
    \E id \in NodeIds : deleteNode(id) /\ Call("deleteNode", [id |-> id], MaxSteps)

EdgesOnEdgesChangeCall ==
    \E id \in EdgeIds :
        onEdgesChange({id}) /\ Call("onEdgesChange", [removed |-> {id}], MaxSteps)

EdgesUndoCall == undo /\ Call("undo", NoData, MaxSteps)

EdgesRedoCall == redo /\ Call("redo", NoData, MaxSteps)

NextEdges ==
    \/ EdgesAddNodeCall
    \/ EdgesAddEdgeCall
    \/ EdgesRemoveEdgeCall
    \/ EdgesCycleEdgeTypeCall
    \/ EdgesDeleteNodeCall
    \/ EdgesOnEdgesChangeCall
    \/ EdgesUndoCall
    \/ EdgesRedoCall

SpecEdges == Init /\ [][NextEdges]_vars

\* ---- SpecDelete: deleting nodes that carry edges, the selection and the panel

\* the canvas' onNodeDoubleClick: selects the node and opens the task panel
onNodeDoubleClick(id) ==
    /\ selectedNodeId' = id
    /\ taskPanelOpen' = TRUE
    /\ UNCHANGED <<nodes, edges, filters, activePresetId, collapsedGroups, past,
                   future, nextId>>

DeleteAddNodeCall ==
    /\ addNode(Origin, NoData)
    /\ Call("addNode", [position |-> Origin, data |-> NoData], MaxDeleteSteps)

DeleteAddEdgeCall ==
    \E s \in NodeIds, t \in NodeIds :
        /\ addEdge(Connection(s, t, "out", "in"))
        /\ Call("addEdge", Connection(s, t, "out", "in"), MaxDeleteSteps)

DeleteOnNodeDoubleClickCall ==
    \E id \in NodeIds :
        onNodeDoubleClick(id) /\ Call("onNodeDoubleClick", [id |-> id], MaxDeleteSteps)

DeleteDeleteNodeCall ==
    \E id \in KnownIds :
        deleteNode(id) /\ Call("deleteNode", [id |-> id], MaxDeleteSteps)

NextDelete ==
    \/ DeleteAddNodeCall
    \/ DeleteAddEdgeCall
    \/ DeleteOnNodeDoubleClickCall
    \/ DeleteDeleteNodeCall

SpecDelete == Init /\ [][NextDelete]_vars

\* ---- SpecDeep: runs long enough to fill the history stacks

DeepAddNodeCall ==
    /\ nextId <= MaxDeepIds
    /\ Len(nodes) < 2
    /\ addNode(Origin, NoData)
    /\ CallLatest("addNode", [position |-> Origin, data |-> NoData])

DeepAddEdgeCall ==
    /\ nextId <= MaxDeepIds
    /\ Len(nodes) = 2
    /\ addEdge(Connection(nodes[1].id, nodes[2].id, "out", "in"))
    /\ CallLatest("addEdge", Connection(nodes[1].id, nodes[2].id, "out", "in"))

DeepCycleEdgeTypeCall ==
    \E id \in EdgeIds : cycleEdgeType(id) /\ CallLatest("cycleEdgeType", [edgeId |-> id])

DeepUndoCall == undo /\ CallLatest("undo", NoData)

DeepRedoCall == redo /\ CallLatest("redo", NoData)

NextDeep ==
    \/ DeepAddNodeCall
    \/ DeepAddEdgeCall
    \/ DeepCycleEdgeTypeCall
    \/ DeepUndoCall
    \/ DeepRedoCall

SpecDeep == Init /\ [][NextDeep]_vars

\* ---- SpecFilter: tasks with data, the filters, the preset and the selection

\* the data the creation dialog submits for a new task
TaskDataArgs ==
    {NoData,
     [title |-> "Fix Art", department |-> "Art", priority |-> "high",
      assignee |-> "Alice"],
     [department |-> "Engineering", assignee |-> "bob"]}

\* the partial filters the filter panel submits
FilterArgs ==
    {[departments |-> <<"Art">>],
     [priority |-> "high"],
     [assignee |-> "ALI"],
     [search |-> "art"],
     [search |-> "Bo", departments |-> <<>>]}

PresetIds == {PRESETS[i].id : i \in 1..Len(PRESETS)}

FilterAddNodeCall ==
    \E data \in TaskDataArgs :
        /\ addNode(Origin, data)
        /\ Call("addNode", [position |-> Origin, data |-> data], MaxFilterSteps)

FilterAddEdgeCall ==
    /\ Len(nodes) >= 2
    /\ addEdge(Connection(nodes[1].id, nodes[2].id, "out", "in"))
    /\ Call("addEdge", Connection(nodes[1].id, nodes[2].id, "out", "in"), MaxFilterSteps)

FilterAddGroupNodeCall ==
    /\ addGroupNode(Origin, "art group", "#6b7280")
    /\ Call("addGroupNode",
            [position |-> Origin, title |-> "art group", color |-> "#6b7280"],
            MaxFilterSteps)

FilterSetFiltersCall ==
    \E partial \in FilterArgs :
        setFilters(partial) /\ Call("setFilters", [partial |-> partial], MaxFilterSteps)

FilterClearFiltersCall == clearFilters /\ Call("clearFilters", NoData, MaxFilterSteps)

FilterSetPresetCall ==
    \E presetId \in PresetIds :
        setPreset(presetId) /\ Call("setPreset", [presetId |-> presetId], MaxFilterSteps)

FilterSetSelectedNodeCall ==
    \E id \in NodeIds \cup {"null"} :
        setSelectedNode(id) /\ Call("setSelectedNode", [id |-> id], MaxFilterSteps)

FilterUndoCall == undo /\ Call("undo", NoData, MaxFilterSteps)

NextFilter ==
    \/ FilterAddNodeCall
    \/ FilterAddEdgeCall
    \/ FilterAddGroupNodeCall
    \/ FilterSetFiltersCall
    \/ FilterClearFiltersCall
    \/ FilterSetPresetCall
    \/ FilterSetSelectedNodeCall
    \/ FilterUndoCall

SpecFilter == Init /\ [][NextFilter]_vars

\* ---- SpecGesture: drag gestures and edge type cycling on a small graph

\* a position report for node id, as React Flow emits it while (dragging = "true")
\* and when (dragging = "false") a drag is going on
PositionChange(id, position, dragging) ==
    [type |-> "position", id |-> id, position |-> position, dragging |-> dragging]

DragVia == [x |-> 50, y |-> 50]
DragTo == [x |-> 100, y |-> 100]

GestureAddNodeCall ==
    /\ Len(nodes) < 2
    /\ addNode(Origin, NoData)
    /\ Call("addNode", [position |-> Origin, data |-> NoData], MaxGestureSteps)

GestureAddEdgeCall ==
    \E s \in NodeIds, t \in NodeIds :
        /\ addEdge(Connection(s, t, "out", "in"))
        /\ Call("addEdge", Connection(s, t, "out", "in"), MaxGestureSteps)

GestureCycleEdgeTypeCall ==
    \E id \in EdgeIds :
        cycleEdgeType(id) /\ Call("cycleEdgeType", [edgeId |-> id], MaxGestureSteps)

GestureDragCall ==
    \E id \in NodeIds :
        LET changes == <<PositionChange(id, DragVia, "true")>>
        IN  /\ onNodesChange(changes)
            /\ Call("onNodesChange", [changes |-> changes], MaxGestureSteps)

GestureDragEndCall ==
    \E id \in NodeIds :
        LET changes == <<PositionChange(id, DragTo, "false")>>
        IN  /\ onNodesChange(changes)
            /\ Call("onNodesChange", [changes |-> changes], MaxGestureSteps)

GestureUndoCall == undo /\ Call("undo", NoData, MaxGestureSteps)

NextGesture ==
    \/ GestureAddNodeCall
    \/ GestureAddEdgeCall
    \/ GestureCycleEdgeTypeCall
    \/ GestureDragCall
    \/ GestureDragEndCall
    \/ GestureUndoCall

SpecGesture == Init /\ [][NextGesture]_vars

\* ---- SpecView: one or two groups, tasks, edges from the tasks, collapse and expand.
\* The graph is built in a fixed order of kinds of call (the groups, the tasks, the
\* moves into the group, the edges and their types), every choice within a kind
\* being open, and once it holds an edge it is collapsed and expanded.

\* The group has been collapsed or expanded: the graph is built.
Toggled == \E k \in 1..Len(log) : log[k].op = "toggleGroupCollapse"

ViewAddGroupNodeCall ==
    /\ Len(nodes) < MaxViewGroups
    /\ \A i \in 1..Len(nodes) : nodes[i].type = "group"
    /\ addGroupNode(Origin, "New Group", "#6b7280")
    /\ Call("addGroupNode",
            [position |-> Origin, title |-> "New Group", color |-> "#6b7280"],
            MaxViewSteps)

ViewAddNodeCall ==
    /\ 1 <= Len(nodes) /\ Len(nodes) < MaxViewNodes
    /\ addNode(Origin, NoData)
    /\ Call("addNode", [position |-> Origin, data |-> NoData], MaxViewSteps)

ViewMoveNodeToGroupCall ==
    /\ Len(nodes) = MaxViewNodes
    /\ edges = <<>>
    /\ ~Toggled
    /\ \E i \in 1..Len(nodes), g \in GroupIds :
          /\ nodes[i].type = "task"
          /\ \A j \in i..Len(nodes) : nodes[j].parentId = "undefined"
          /\ moveNodeToGroup(nodes[i].id, g)
          /\ Call("moveNodeToGroup", [nodeId |-> nodes[i].id, groupId |-> g],
                  MaxViewSteps)

ViewAddEdgeCall ==
    /\ Len(nodes) = MaxViewNodes
    /\ Len(edges) < MaxViewEdges
    /\ ~Toggled
    /\ \E s \in NodeIds \ GroupIds, t \in NodeIds :
          /\ s # t
          /\ addEdge(Connection(s, t, "out", "in"))
          /\ Call("addEdge", Connection(s, t, "out", "in"), MaxViewSteps)

ViewSetEdgeTypeCall ==
    /\ edges # <<>>
    /\ edges[Len(edges)].data.edgeType = "blocks"
    /\ ~Toggled
    /\ \E edgeType \in {"relates", "triggers"} :
          /\ setEdgeType(edges[Len(edges)].id, edgeType)
          /\ Call("setEdgeType",
                  [edgeId |-> edges[Len(edges)].id, edgeType |-> edgeType], MaxViewSteps)

ViewToggleGroupCollapseCall ==
    /\ edges # <<>>
    /\ Cardinality({k \in 1..Len(log) : log[k].op = "toggleGroupCollapse"}) < MaxViewToggles
    /\ \E g \in GroupIds :
          /\ toggleGroupCollapse(g)
          /\ Call("toggleGroupCollapse", [groupId |-> g], MaxViewSteps)

NextView ==
    \/ ViewAddGroupNodeCall
    \/ ViewAddNodeCall
    \/ ViewMoveNodeToGroupCall
    \/ ViewAddEdgeCall
    \/ ViewSetEdgeTypeCall
    \/ ViewToggleGroupCollapseCall

SpecView == Init /\ [][NextView]_vars

\* ---- SpecMove: groups and tasks at several positions, moved into and out of groups

GroupPositionArgs == {[x |-> 100, y |-> 100], [x |-> 20, y |-> 20]}
TaskPositionArgs == {[x |-> 150, y |-> 200], [x |-> 105, y |-> 120]}
MovedTo == [x |-> 200, y |-> 200]

MoveAddGroupNodeCall ==
    \E position \in GroupPositionArgs :
        /\ Len(nodes) < MaxMoveNodes
        /\ addGroupNode(position, "New Group", "#6b7280")
        /\ Call("addGroupNode",
                [position |-> position, title |-> "New Group", color |-> "#6b7280"],
                MaxMoveSteps)

MoveAddNodeCall ==
    \E position \in TaskPositionArgs :
        /\ Len(nodes) < MaxMoveNodes
        /\ addNode(position, NoData)
        /\ Call("addNode", [position |-> position, data |-> NoData], MaxMoveSteps)

MoveMoveNodeToGroupCall ==
    \E id \in NodeIdArgs, g \in NodeIds \cup {MissingId, "undefined"} :
        /\ moveNodeToGroup(id, g)
        /\ Call("moveNodeToGroup", [nodeId |-> id, groupId |-> g], MaxMoveSteps)

MoveSetNodePositionCall ==
    \E id \in GroupIds :
        /\ setNodePosition(id, MovedTo)
        /\ Call("setNodePosition", [id |-> id, position |-> MovedTo], MaxMoveSteps)

MoveUndoCall == undo /\ Call("undo", NoData, MaxMoveSteps)

NextMove ==
    \/ MoveAddGroupNodeCall
    \/ MoveAddNodeCall
    \/ MoveMoveNodeToGroupCall
    \/ MoveSetNodePositionCall
    \/ MoveUndoCall

SpecMove == Init /\ [][NextMove]_vars

\* --- The canvas over a filtered, collapsed and undone graph: one group, an Art
\* --- task and a task of no department; then at most one move into the group,
\* --- edges, a filter by department, collapse and expand, deletion and type cycling
\* --- of the edges the canvas shows, undo and redo.

CanvasAddGroupNodeCall ==
    /\ nodes = <<>>
    /\ addGroupNode(Origin, "New Group", "#6b7280")
    /\ Call("addGroupNode",
            [position |-> Origin, title |-> "New Group", color |-> "#6b7280"],
            MaxCanvasSteps)

CanvasAddNodeCall ==
    /\ 1 <= Len(nodes) /\ Len(nodes) < MaxCanvasNodes
    /\ LET data == IF Len(nodes) = 1 THEN [department |-> "Art"] ELSE NoData
       IN  /\ addNode(Origin, data)
           /\ Call("addNode", [position |-> Origin, data |-> data], MaxCanvasSteps)

CanvasMoveNodeToGroupCall ==
    /\ Len(nodes) = MaxCanvasNodes
    /\ edges = <<>>
    /\ ~Toggled
    /\ \A i \in 1..Len(nodes) : nodes[i].parentId = "undefined"
    /\ \E id \in NodeIds \ GroupIds, g \in GroupIds :
          /\ moveNodeToGroup(id, g)
          /\ Call("moveNodeToGroup", [nodeId |-> id, groupId |-> g], MaxCanvasSteps)

CanvasAddEdgeCall ==
    /\ Len(nodes) = MaxCanvasNodes
    /\ Len(edges) < MaxCanvasEdges
    /\ ~Toggled
    /\ filters = defaultFilters
    /\ \E s \in NodeIds \ GroupIds, t \in NodeIds :
          /\ s # t
          /\ addEdge(Connection(s, t, "out", "in"))
          /\ Call("addEdge", Connection(s, t, "out", "in"), MaxCanvasSteps)

CanvasSetEdgeTypeCall ==
    /\ edges # <<>>
    /\ edges[Len(edges)].data.edgeType = "blocks"
    /\ ~Toggled
    /\ filters = defaultFilters
    /\ setEdgeType(edges[Len(edges)].id, "relates")
    /\ Call("setEdgeType", [edgeId |-> edges[Len(edges)].id, edgeType |-> "relates"],
            MaxCanvasSteps)

CanvasSetFiltersCall ==
    /\ edges # <<>>
    /\ filters = defaultFilters
    /\ setFilters([departments |-> <<"Art">>])
    /\ Call("setFilters", [partial |-> [departments |-> <<"Art">>]], MaxCanvasSteps)

CanvasClearFiltersCall ==
    /\ filters # defaultFilters
    /\ clearFilters
    /\ Call("clearFilters", NoData, MaxCanvasSteps)

CanvasToggleGroupCollapseCall ==
    /\ edges # <<>>
    /\ \E g \in GroupIds :
          /\ toggleGroupCollapse(g)
          /\ Call("toggleGroupCollapse", [groupId |-> g], MaxCanvasSteps)

CanvasOnEdgesChangeCall ==
    /\ Toggled
    /\ \E id \in {displayEdges[j].id : j \in 1..Len(displayEdges)} :
          /\ onEdgesChange({id})
          /\ Call("onEdgesChange", [removed |-> {id}], MaxCanvasSteps)

CanvasCycleEdgeTypeCall ==
    /\ Toggled
    /\ \E id \in {displayEdges[j].id : j \in 1..Len(displayEdges)} :
          /\ cycleEdgeType(id)
          /\ Call("cycleEdgeType", [edgeId |-> id], MaxCanvasSteps)

CanvasUndoCall == Toggled /\ undo /\ Call("undo", NoData, MaxCanvasSteps)

CanvasRedoCall == Toggled /\ redo /\ Call("redo", NoData, MaxCanvasSteps)

NextCanvas ==
    \/ CanvasAddGroupNodeCall
    \/ CanvasAddNodeCall
    \/ CanvasMoveNodeToGroupCall
    \/ CanvasAddEdgeCall
    \/ CanvasSetEdgeTypeCall
    \/ CanvasSetFiltersCall
    \/ CanvasClearFiltersCall
    \/ CanvasToggleGroupCollapseCall
    \/ CanvasOnEdgesChangeCall
    \/ CanvasCycleEdgeTypeCall
    \/ CanvasUndoCall
    \/ CanvasRedoCall

SpecCanvas == Init /\ [][NextCanvas]_vars

\* --- The graph under presets and history: tasks created and updated with a
\* --- department of the active preset, groups, edges between nodes of the store,
\* --- deletion, switches of the preset, undo and redo.

\* the data the dialogs submit: no field, the empty department, or a department
\* they offer, which is a category of the active preset
DepartmentDataArgs ==
    {NoData} \cup
    {[department |-> d] :
        d \in ({"Art", "Engineering"} \cap Range(getPresetById(activePresetId).categories))
                  \cup {""}}

GraphAddNodeCall ==
    /\ Len(nodes) < MaxGraphNodes
    /\ \E data \in DepartmentDataArgs \ {[department |-> ""]} :
          /\ addNode(Origin, data)
          /\ Call("addNode", [position |-> Origin, data |-> data], MaxGraphSteps)

GraphAddGroupNodeCall ==
    /\ Len(nodes) < MaxGraphNodes
    /\ addGroupNode(Origin, "New Group", "#6b7280")
    /\ Call("addGroupNode",
            [position |-> Origin, title |-> "New Group", color |-> "#6b7280"],
            MaxGraphSteps)

GraphUpdateNodeCall ==
    \E id \in NodeIds \ GroupIds, data \in DepartmentDataArgs \ {NoData} :
        /\ updateNode(id, data)
        /\ Call("updateNode", [id |-> id, data |-> data], MaxGraphSteps)

GraphDeleteNodeCall ==
    \E id \in NodeIds :
        deleteNode(id) /\ Call("deleteNode", [id |-> id], MaxGraphSteps)

GraphAddEdgeCall ==
    \E s \in NodeIds, t \in NodeIds :
        /\ addEdge(Connection(s, t, "out", "in"))
        /\ Call("addEdge", Connection(s, t, "out", "in"), MaxGraphSteps)

GraphRemoveEdgeCall ==
    \E id \in EdgeIds :
        removeEdge(id) /\ Call("removeEdge", [id |-> id], MaxGraphSteps)

GraphSetPresetCall ==
    \E presetId \in {"gamedev", "startup"} :
        setPreset(presetId) /\ Call("setPreset", [presetId |-> presetId], MaxGraphSteps)

GraphUndoCall == undo /\ Call("undo", NoData, MaxGraphSteps)

GraphRedoCall == redo /\ Call("redo", NoData, MaxGraphSteps)

NextGraph ==
    \/ GraphAddNodeCall
    \/ GraphAddGroupNodeCall
    \/ GraphUpdateNodeCall
    \/ GraphDeleteNodeCall
    \/ GraphAddEdgeCall
    \/ GraphRemoveEdgeCall
    \/ GraphSetPresetCall
    \/ GraphUndoCall
    \/ GraphRedoCall

SpecGraph == Init /\ [][NextGraph]_vars

\* --- History against the view state: a group collapsed and expanded, a node
\* --- selected with the task panel opened, a filter, a switch of the preset, and
\* --- undo and redo among them.

FrameAddGroupNodeCall ==
    /\ nodes = <<>>
    /\ addGroupNode(Origin, "New Group", "#6b7280")
    /\ Call("addGroupNode",
            [position |-> Origin, title |-> "New Group", color |-> "#6b7280"],
            MaxFrameSteps)

FrameToggleGroupCollapseCall ==
    \E g \in GroupIds :
        /\ toggleGroupCollapse(g)
        /\ Call("toggleGroupCollapse", [groupId |-> g], MaxFrameSteps)

FrameOnNodeDoubleClickCall ==
    /\ selectedNodeId = "null"
    /\ \E id \in NodeIds :
          /\ onNodeDoubleClick(id)
          /\ Call("onNodeDoubleClick", [id |-> id], MaxFrameSteps)

FrameSetFiltersCall ==
    /\ filters = defaultFilters
    /\ setFilters([departments |-> <<"Art">>])
    /\ Call("setFilters", [partial |-> [departments |-> <<"Art">>]], MaxFrameSteps)

FrameSetPresetCall ==
    /\ activePresetId = "gamedev"
    /\ setPreset("startup")
    /\ Call("setPreset", [presetId |-> "startup"], MaxFrameSteps)

FrameUndoCall == undo /\ Call("undo", NoData, MaxFrameSteps)

FrameRedoCall == redo /\ Call("redo", NoData, MaxFrameSteps)

NextFrame ==
    \/ FrameAddGroupNodeCall
    \/ FrameToggleGroupCollapseCall
    \/ FrameOnNodeDoubleClickCall
    \/ FrameSetFiltersCall
    \/ FrameSetPresetCall
    \/ FrameUndoCall
    \/ FrameRedoCall

SpecFrame == Init /\ [][NextFrame]_vars

\* ------------------------------------------------------------- the claims

\* The store after the i-th call of the log.
After(i) == IF i < Len(log) THEN log[i + 1].before ELSE StoreState

\* The (nodes, edges) pair of a store.
Graph(s) == [nodes |-> s.nodes, edges |-> s.edges]

StructuralOps ==
    {"addNode", "updateNode", "deleteNode", "addGroupNode", "toggleGroupCollapse",
     "moveNodeToGroup", "addEdge", "removeEdge", "cycleEdgeType", "setEdgeType"}

\* Calls i .. i+n-1 are structural mutations and calls i+n .. i+2n-1 are undos.
MutationsThenUndos(i, n) ==
    /\ i + 2 * n - 1 <= Len(log)
    /\ \A k \in i..(i + n - 1) : log[k].op \in StructuralOps
    /\ \A k \in (i + n)..(i + 2 * n - 1) : log[k].op = "undo"

\* The i-th call recorded the store it was made on as the newest slice of past.
Snapshotted(i) ==
    LET b == log[i].before
        a == After(i)
    IN  /\ Len(a.past) > 0
        /\ a.past[Len(a.past)] = Graph(b)
        /\ Len(a.past) = Len(b.past) + 1 \/ Len(b.past) = MAX_HISTORY

\* C1 as claimed: N structural mutations followed by N undos leave (nodes, edges)
\* as they were before the first of the mutations.
C1_AsClaimed ==
    \A i \in 1..Len(log), n \in 1..Len(log) :
        MutationsThenUndos(i, n) => Graph(After(i + 2 * n - 1)) = Graph(log[i].before)

\* C1, amended: N <= 50 structural mutations each of which recorded a history
\* slice (an addEdge or moveNodeToGroup the store rejects records none), followed
\* by N undos, leave (nodes, edges) as they were before the first of the mutations.
C1_UndoRestores ==
    \A i \in 1..Len(log), n \in 1..Len(log) :
        /\ MutationsThenUndos(i, n)
        /\ n <= MAX_HISTORY
        /\ \A k \in i..(i + n - 1) : Snapshotted(k)
        => Graph(After(i + 2 * n - 1)) = Graph(log[i].before)

\* Two mutations that changed the graph, one of them not the addition of a node,
\* were both undone.
C1_Witness ==
    \E i \in 1..Len(log) :
        /\ MutationsThenUndos(i, 2)
        /\ Snapshotted(i) /\ Snapshotted(i + 1)
        /\ log[i + 1].op \notin {"addNode", "addGroupNode"}
        /\ Graph(After(i)) # Graph(log[i].before)
        /\ Graph(After(i + 1)) # Graph(After(i))
        /\ Graph(After(i + 3)) = Graph(log[i].before)

\* C2: undo (with a non-empty past) immediately followed by redo restores the
\* (nodes, edges) that existed before the undo.
C2_RedoAfterUndo ==
    \A i \in 1..Len(log) :
        /\ i + 1 <= Len(log)
        /\ log[i].op = "undo"
        /\ Len(log[i].before.past) > 0
        /\ log[i + 1].op = "redo"
        => Graph(After(i + 1)) = Graph(log[i].before)

\* An undo that changed the graph was followed at once by a redo.
C2_Witness ==
    \E i \in 1..Len(log) :
        /\ i + 1 <= Len(log)
        /\ log[i].op = "undo"
        /\ Len(log[i].before.past) > 0
        /\ log[i + 1].op = "redo"
        /\ Graph(After(i)) # Graph(log[i].before)
        /\ Graph(After(i + 1)) = Graph(log[i].before)

\* C3 as claimed: every structural mutation empties the future stack, a redo right
\* after it changes nothing, and only undo makes the future stack longer.
C3_AsClaimed ==
    \A i \in 1..Len(log) :
        /\ log[i].op \in StructuralOps =>
              /\ After(i).future = <<>>
              /\ (i + 1 <= Len(log) /\ log[i + 1].op = "redo") => After(i + 1) = After(i)
        /\ Len(After(i).future) > Len(log[i].before.future) => log[i].op = "undo"

\* C3, amended: every structural mutation the store does not reject (it records a
\* history slice) empties the future stack, a redo right after it changes nothing,
\* and only undo makes the future stack longer.
C3_LinearHistory ==
    \A i \in 1..Len(log) :
        /\ (log[i].op \in StructuralOps /\ Snapshotted(i)) =>
              /\ After(i).future = <<>>
              /\ (i + 1 <= Len(log) /\ log[i + 1].op = "redo") => After(i + 1) = After(i)
        /\ Len(After(i).future) > Len(log[i].before.future) => log[i].op = "undo"

\* A mutation was made while a redo was pending, and a redo followed it.
C3_Witness ==
    \E i \in 1..Len(log) :
        /\ i + 1 <= Len(log)
        /\ log[i].op \in StructuralOps
        /\ Snapshotted(i)
        /\ log[i].before.future # <<>>
        /\ log[i + 1].op = "redo"

\* The ids of the nodes, and of the edges, of a store.
NodeIdsOf(s) == {s.nodes[k].id : k \in 1..Len(s.nodes)}
EdgeIdsOf(s) == {s.edges[k].id : k \in 1..Len(s.edges)}

\* C8: updateNode and deleteNode with an id of no node leave nodes, edges,
\* selectedNodeId and both history stacks as they were.
C8_MissingNodeNoOp ==
    \A i \in 1..Len(log) :
        /\ log[i].op \in {"updateNode", "deleteNode"}
        /\ log[i].args.id \notin NodeIdsOf(log[i].before)
        => /\ After(i).nodes = log[i].before.nodes
           /\ After(i).edges = log[i].before.edges
           /\ After(i).selectedNodeId = log[i].before.selectedNodeId
           /\ After(i).past = log[i].before.past
           /\ After(i).future = log[i].before.future

\* C9: removeEdge, cycleEdgeType and setEdgeType with an id of no stored edge leave
\* nodes, edges and both history stacks as they were.
C9_MissingEdgeNoOp ==
    \A i \in 1..Len(log) :
        /\ log[i].op \in {"removeEdge", "cycleEdgeType", "setEdgeType"}
        /\ (IF log[i].op = "removeEdge" THEN log[i].args.id ELSE log[i].args.edgeId)
              \notin EdgeIdsOf(log[i].before)
        => /\ After(i).nodes = log[i].before.nodes
           /\ After(i).edges = log[i].before.edges
           /\ After(i).past = log[i].before.past
           /\ After(i).future = log[i].before.future

\* C10: undo with an empty past, and redo with an empty future, change no component
\* of the store.
C10_EmptyHistoryNoOp ==
    \A i \in 1..Len(log) :
        \/ log[i].op = "undo" /\ log[i].before.past = <<>>
        \/ log[i].op = "redo" /\ log[i].before.future = <<>>
        => After(i) = log[i].before

\* redo was called with nothing to redo on a store holding nodes, and undo was
\* called with an empty past while a redo was pending.
C10_Witness ==
    /\ \E i \in 1..Len(log) :
          /\ log[i].op = "redo"
          /\ log[i].before.future = <<>>
          /\ log[i].before.nodes # <<>>
    /\ \E i \in 1..Len(log) :
          /\ log[i].op = "undo"
          /\ log[i].before.past = <<>>
          /\ log[i].before.future # <<>>

\* C4: past and future each hold at most 50 slices, and a snapshot recorded while
\* past holds 50 evicts the oldest slice and keeps the other 49 in order below the
\* new one.
C4_BoundedHistory ==
    /\ Len(past) <= 50
    /\ Len(future) <= 50
    /\ \A i \in 1..Len(log) :
          /\ Len(log[i].before.past) = 50
          /\ log[i].op # "undo"
          /\ After(i).past # log[i].before.past
          => /\ Len(After(i).past) = 50
             /\ \A k \in 1..49 : After(i).past[k] = log[i].before.past[k + 1]
             /\ After(i).past[50] = Graph(log[i].before)

\* A mutation was recorded while past held 50 slices, the oldest of which differed
\* from the one above it.
C4_Witness ==
    \E i \in 1..Len(log) :
        /\ Len(log[i].before.past) = 50
        /\ log[i].op = "cycleEdgeType"
        /\ log[i].before.past[1] # log[i].before.past[2]
        /\ After(i).past[1] = log[i].before.past[2]
        /\ Len(After(i).past) = 50

\* The key the duplicate rule compares edges by.
EdgeKey(e) == <<e.source, e.target, e.sourceHandle, e.targetHandle>>

\* C5: no two stored edges share (source, target, sourceHandle, targetHandle), and
\* an addEdge whose source, target and handles (left out, null or identifiers) equal
\* those of a stored edge adds nothing.
C5_NoDuplicateEdges ==
    /\ \A i \in 1..Len(edges), j \in 1..Len(edges) :
          i # j => EdgeKey(edges[i]) # EdgeKey(edges[j])
    /\ \A i \in 1..Len(log) :
          /\ log[i].op = "addEdge"
          /\ \E k \in 1..Len(log[i].before.edges) :
                EdgeKey(log[i].before.edges[k]) =
                    <<log[i].args.source, log[i].args.target,
                      OrNull(log[i].args.sourceHandle), OrNull(log[i].args.targetHandle)>>
          => After(i).edges = log[i].before.edges

\* Every edge of a graph joins two different ids.
NoSelfLoop(g) == \A k \in 1..Len(g.edges) : g.edges[k].source # g.edges[k].target

\* C6: addEdge with source = target leaves the whole store unchanged, and every
\* stored edge, also in the slices undo and redo restore, has source # target.
C6_NoSelfLoops ==
    /\ \A i \in 1..Len(log) :
          (log[i].op = "addEdge" /\ log[i].args.source = log[i].args.target)
          => After(i) = log[i].before
    /\ NoSelfLoop(StoreState)
    /\ \A k \in 1..Len(past) : NoSelfLoop(past[k])
    /\ \A k \in 1..Len(future) : NoSelfLoop(future[k])

\* A self-loop was requested on a store that holds an edge and has history.
C6_Witness ==
    \E i \in 1..Len(log) :
        /\ log[i].op = "addEdge"
        /\ log[i].args.source = log[i].args.target
        /\ log[i].args.source \in NodeIdsOf(log[i].before)
        /\ Len(log[i].before.edges) > 0
        /\ Len(log[i].before.past) > 0

\* C7: deleteNode(X) removes X and the edges at X and keeps the rest, clears the
\* selection and closes the panel exactly when X was selected, and a second
\* deleteNode(X) changes neither nodes, edges nor the selection.
C7_DeleteNode ==
    \A i \in 1..Len(log) :
        log[i].op = "deleteNode" =>
            LET X == log[i].args.id
                b == log[i].before
                a == After(i)
            IN  /\ a.nodes = SelectSeq(b.nodes, LAMBDA n : n.id # X)
                /\ a.edges = SelectSeq(b.edges, LAMBDA e : e.source # X /\ e.target # X)
                /\ a.selectedNodeId = (IF b.selectedNodeId = X THEN "null"
                                       ELSE b.selectedNodeId)
                /\ a.taskPanelOpen = (IF b.selectedNodeId = X THEN FALSE
                                      ELSE b.taskPanelOpen)
                /\ (i + 1 <= Len(log) /\ log[i + 1].op = "deleteNode"
                        /\ log[i + 1].args.id = X)
                   => /\ After(i + 1).nodes = a.nodes
                      /\ After(i + 1).edges = a.edges
                      /\ After(i + 1).selectedNodeId = a.selectedNodeId
                      /\ After(i + 1).taskPanelOpen = a.taskPanelOpen

\* The selected node, shown in the open panel and the target of an edge, was
\* deleted twice in a row while another node stayed.
C7_Witness ==
    \E i \in 1..Len(log) :
        /\ i + 1 <= Len(log)
        /\ log[i].op = "deleteNode"
        /\ log[i + 1].op = "deleteNode"
        /\ log[i + 1].args.id = log[i].args.id
        /\ log[i].args.id \in NodeIdsOf(log[i].before)
        /\ log[i].before.selectedNodeId = log[i].args.id
        /\ log[i].before.taskPanelOpen
        /\ \E k \in 1..Len(log[i].before.edges) :
              log[i].before.edges[k].target = log[i].args.id
        /\ After(i).nodes # <<>>
        /\ After(i).edges = <<>>

\* Every parentId in the node collection ns names a group node of ns.
ParentsAreGroups(ns) ==
    \A i \in 1..Len(ns) :
        ns[i].parentId # "undefined" =>
            \E j \in 1..Len(ns) : ns[j].id = ns[i].parentId /\ ns[j].type = "group"

\* C11: in every reachable state every node that has a parentId references a node
\* that exists in nodes and is a group node, and after deleteNode of a group no
\* node has a parentId pointing at it.
C11_ParentIsGroup ==
    /\ ParentsAreGroups(nodes)
    /\ \A i \in 1..Len(log) :
          log[i].op = "deleteNode" =>
              \A k \in 1..Len(After(i).nodes) :
                  After(i).nodes[k].parentId # log[i].args.id

\* The value of the hidden field for a boolean.
HiddenOf(b) == IF b THEN "true" ELSE "false"

\* C20: toggleGroupCollapse(g) on an existing group g, in any reachable state,
\* inverts g's collapsed flag, sets hidden on every node whose parentId is g to the
\* new flag, makes g's membership of collapsedGroups equal to the new flag, and
\* leaves every other node and all edges unchanged.
C20_ToggleGroupCollapse ==
    \A i \in 1..Len(log) :
        LET g == log[i].args.groupId
            b == log[i].before
            a == After(i)
        IN  (log[i].op = "toggleGroupCollapse" /\ g \in
                 {b.nodes[k].id : k \in {j \in 1..Len(b.nodes) : b.nodes[j].type = "group"}})
            => /\ Len(a.nodes) = Len(b.nodes)
               /\ a.edges = b.edges
               /\ \A k \in 1..Len(b.nodes) :
                     IF b.nodes[k].id = g
                     THEN /\ a.nodes[k].data.collapsed = ~b.nodes[k].data.collapsed
                          /\ (g \in a.collapsedGroups) = a.nodes[k].data.collapsed
                          /\ a.nodes[k] = [b.nodes[k] EXCEPT !.data.collapsed = ~@]
                     ELSE IF b.nodes[k].parentId = g
                     THEN \E c \in {n \in Range(a.nodes) : n.id = g} :
                              a.nodes[k] = [b.nodes[k] EXCEPT
                                               !.hidden = HiddenOf(c.data.collapsed)]
                     ELSE a.nodes[k] = b.nodes[k]

\* The four filter criteria of the store's filters are at their match-all value.
MatchAll(f) ==
    f.departments = <<>> /\ f.priority = "" /\ f.assignee = "" /\ f.search = ""

\* C14: with all four filter criteria at their match-all value getFilteredNodeIds
\* returns the ids of all nodes, task and group alike.
C14_MatchAllReturnsAll ==
    MatchAll(filters) =>
        getFilteredNodeIds(nodes, filters) = {nodes[i].id : i \in 1..Len(nodes)}

\* The filters were cleared on a store holding a task and a group.
C14_Witness ==
    /\ MatchAll(filters)
    /\ \E i \in 1..Len(log) : log[i].op \in {"clearFilters", "setPreset"}
                              /\ ~MatchAll(log[i].before.filters)
    /\ \E n \in Range(nodes) : n.type = "task"
    /\ \E n \in Range(nodes) : n.type = "group"
    /\ Cardinality(getFilteredNodeIds(nodes, filters)) = Len(nodes)

\* a contains b, ignoring case
ContainsIgnoringCase(a, b) ==
    \E k \in 1..(Len(a) + 1), m \in 0..Len(a) :
        /\ k + m - 1 <= Len(a)
        /\ m = Len(b)
        /\ \A j \in 0..(m - 1) :
              toLowerCaseChar(SubSeq(a, k + j, k + j)) =
              toLowerCaseChar(SubSeq(b, j + 1, j + 1))

\* The task with data d passes the filters f.
TaskPasses(d, f) ==
    /\ f.departments = <<>> \/ \E k \in 1..Len(f.departments) : f.departments[k] = d.department
    /\ f.priority = "" \/ f.priority = d.priority
    /\ f.assignee = "" \/ ContainsIgnoringCase(d.assignee, f.assignee)
    /\ f.search = "" \/ ContainsIgnoringCase(d.title, f.search)
                     \/ ContainsIgnoringCase(d.assignee, f.search)

\* C15: with a filter criterion active getFilteredNodeIds returns exactly every
\* non-task node plus every task node whose department, priority, assignee and
\* title pass the four criteria, text compared ignoring case; with only
\* departments = {Art} that is the Art tasks plus the groups.
C15_ActiveFilters ==
    ~MatchAll(filters) =>
        /\ \A n \in Range(nodes) :
              (n.id \in getFilteredNodeIds(nodes, filters)) <=>
                  (n.type # "task" \/ TaskPasses(n.data, filters))
        /\ getFilteredNodeIds(nodes, filters) \subseteq {n.id : n \in Range(nodes)}
        /\ filters = [defaultFilters EXCEPT !.departments = <<"Art">>] =>
              getFilteredNodeIds(nodes, filters) =
                  {n.id : n \in {m \in Range(nodes) :
                                    m.type = "group" \/ m.data.department = "Art"}}

\* A search typed in lower case keeps a task whose title has it in upper case,
\* drops another task and keeps a group.
C15_Witness ==
    /\ filters.search = "art"
    /\ \E n \in Range(nodes) :
          /\ n.type = "task" /\ n.data.title = "Fix Art"
          /\ n.id \in getFilteredNodeIds(nodes, filters)
    /\ \E n \in Range(nodes) :
          n.type = "task" /\ n.id \notin getFilteredNodeIds(nodes, filters)
    /\ \E n \in Range(nodes) :
          n.type = "group" /\ n.id \in getFilteredNodeIds(nodes, filters)

\* The category names of the preset with id p.
CategoriesOf(p) ==
    UNION {Range(PRESETS[k].categories) : k \in {j \in 1..Len(PRESETS) : PRESETS[j].id = p}}

\* C17: after setPreset(p) the active preset is p; every task whose department
\* was non-empty and not a category of p has department ""; every task whose
\* department was "" or a category of p, and every group, is unchanged; the
\* department filter is empty and the other filter criteria are unchanged.
C17_SetPreset ==
    \A i \in 1..Len(log) :
        log[i].op = "setPreset" =>
            LET p == log[i].args.presetId
                b == log[i].before
                a == After(i)
            IN  /\ a.activePresetId = p
                /\ Len(a.nodes) = Len(b.nodes)
                /\ \A k \in 1..Len(b.nodes) :
                      IF /\ b.nodes[k].type = "task"
                         /\ b.nodes[k].data.department # ""
                         /\ b.nodes[k].data.department \notin CategoriesOf(p)
                      THEN a.nodes[k].data.department = ""
                      ELSE a.nodes[k] = b.nodes[k]
                /\ a.filters.departments = <<>>
                /\ a.filters.priority = b.filters.priority
                /\ a.filters.assignee = b.filters.assignee
                /\ a.filters.search = b.filters.search

\* The preset was switched while the department filter was set, on a store with a
\* task whose department the new preset lacks and a task whose department it has.
C17_Witness ==
    \E i \in 1..Len(log) :
        /\ log[i].op = "setPreset"
        /\ log[i].args.presetId # log[i].before.activePresetId
        /\ log[i].before.filters.departments # <<>>
        /\ \E k \in 1..Len(log[i].before.nodes) :
              /\ log[i].before.nodes[k].type = "task"
              /\ log[i].before.nodes[k].data.department = "Art"
              /\ After(i).nodes[k].data.department = ""
        /\ \E k \in 1..Len(log[i].before.nodes) :
              /\ log[i].before.nodes[k].type = "task"
              /\ log[i].before.nodes[k].data.department = "Engineering"
              /\ After(i).nodes[k].data.department = "Engineering"

ViewStateOps == {"setFilters", "clearFilters", "setSelectedNode", "setPreset"}

\* C18: setFilters, clearFilters, setSelectedNode and setPreset leave the past and
\* future stacks exactly as they were, and the first three also leave nodes and
\* edges unchanged.
C18_NoHistory ==
    \A i \in 1..Len(log) :
        log[i].op \in ViewStateOps =>
            /\ After(i).past = log[i].before.past
            /\ After(i).future = log[i].before.future
            /\ log[i].op # "setPreset" => Graph(After(i)) = Graph(log[i].before)

\* One of the four was called, and changed the store, while both stacks held a
\* slice.
C18_Witness ==
    \E i \in 1..Len(log) :
        /\ log[i].op \in ViewStateOps
        /\ log[i].before.past # <<>>
        /\ log[i].before.future # <<>>
        /\ After(i) # log[i].before

\* The edge type one step after t in the cycle blocks -> relates -> triggers -> blocks.
StepAfter(t) ==
    CASE t = "blocks" -> "relates"
      [] t = "relates" -> "triggers"
      [] t = "triggers" -> "blocks"

\* Calls i .. i+n-1 are cycleEdgeType on one edge the store held before call i.
CyclesOfOneEdge(i, n) ==
    /\ i + n - 1 <= Len(log)
    /\ \A k \in i..(i + n - 1) :
          log[k].op = "cycleEdgeType" /\ log[k].args.edgeId = log[i].args.edgeId
    /\ log[i].args.edgeId \in EdgeIdsOf(log[i].before)

\* C16: cycleEdgeType on a stored edge advances its edgeType one step in the cycle
\* blocks -> relates -> triggers -> blocks and changes no other edge; three
\* applications to one edge restore its type, and one application to a freshly
\* created edge yields relates.
C16_CycleEdgeType ==
    \A i \in 1..Len(log) :
        /\ CyclesOfOneEdge(i, 1) =>
              LET b == log[i].before.edges
                  a == After(i).edges
              IN  /\ Len(a) = Len(b)
                  /\ \A k \in 1..Len(b) :
                        IF b[k].id = log[i].args.edgeId
                        THEN a[k] = [b[k] EXCEPT !.data.edgeType = StepAfter(@)]
                        ELSE a[k] = b[k]
        /\ CyclesOfOneEdge(i, 3) => After(i + 2).edges = log[i].before.edges
        /\ (/\ i > 1
            /\ CyclesOfOneEdge(i, 1)
            /\ log[i - 1].op = "addEdge"
            /\ log[i].args.edgeId \notin EdgeIdsOf(log[i - 1].before))
           => \A e \in Range(After(i).edges) :
                  e.id = log[i].args.edgeId => e.data.edgeType = "relates"

\* An edge was created and then cycled three times in a row.
C16_Witness ==
    \E i \in 2..Len(log) :
        /\ CyclesOfOneEdge(i, 3)
        /\ log[i - 1].op = "addEdge"
        /\ log[i].args.edgeId \notin EdgeIdsOf(log[i - 1].before)
        /\ After(i).edges # log[i].before.edges
        /\ After(i + 1).edges # After(i).edges
        /\ After(i + 1).edges # log[i].before.edges
        /\ After(i + 2).edges = log[i].before.edges

\* Call i is a report through onNodesChange that settles a drag.
Settling(i) ==
    /\ log[i].op = "onNodesChange"
    /\ \E k \in 1..Len(log[i].args.changes) :
          log[i].args.changes[k].dragging = "false"

\* Call i is a report through onNodesChange made while a drag is in progress.
Intermediate(i) == log[i].op = "onNodesChange" /\ ~Settling(i)

\* Calls i .. j are a drag gesture: j - i intermediate reports, then the settling one.
Gesture(i, j) ==
    /\ i <= j /\ j <= Len(log)
    /\ \A m \in i..(j - 1) : Intermediate(m)
    /\ Settling(j)

\* C19: a drag gesture of k >= 0 intermediate reports and one settling report adds
\* exactly one slice to the past stack, whatever k; the intermediate reports leave
\* the past and future stacks as they were.
C19_OneSlicePerDrag ==
    \A i \in 1..Len(log), j \in 1..Len(log) :
        Gesture(i, j) =>
            LET p0 == log[i].before.past
                pj == After(j).past
            IN  /\ Len(pj) = Min(Len(p0) + 1, MAX_HISTORY)
                /\ SubSeq(pj, 1, Len(pj) - 1) = SliceLast(p0, MAX_HISTORY - 1)
                /\ \A m \in i..(j - 1) :
                      /\ After(m).past = log[m].before.past
                      /\ After(m).future = log[m].before.future

\* A drag of two intermediate reports and a settling one was made, each of them
\* moving the node, while both stacks held a slice.
C19_Witness ==
    \E i \in 1..Len(log) :
        /\ Gesture(i, i + 2)
        /\ log[i].before.past # <<>>
        /\ log[i].before.future # <<>>
        /\ After(i).nodes # log[i].before.nodes
        /\ After(i + 2).nodes # After(i + 1).nodes
        /\ Len(After(i + 2).past) = Len(log[i].before.past) + 1

\* The derived edge view of store s.
ViewOf(s) == displayEdgesOf(s.nodes, s.edges, s.collapsedGroups,
                            getFilteredNodeIds(s.nodes, s.filters))

\* The ids of the nodes of ns whose parentId is g.
ChildrenOf(ns, g) == {ns[i].id : i \in {j \in 1..Len(ns) : ns[j].parentId = g}}

\* The positions in edges of the stored edges from x to children of g.
EdgesInto(x, g) ==
    {k \in 1..Len(edges) : edges[k].source = x /\ edges[k].target \in ChildrenOf(nodes, g)}

\* The strength of an edge type under blocks(3) > triggers(2) > relates(1).
Strength(t) == CASE t = "blocks" -> 3 [] t = "triggers" -> 2 [] t = "relates" -> 1

\* The type the aggregation of the stored edges at positions K ends with: the type
\* of the first of them, replaced by each later one of strictly higher strength.
RECURSIVE AggregatedType(_, _)
AggregatedType(K, soFar) ==
    IF K = {} THEN soFar
    ELSE LET k == CHOOSE k \in K : \A j \in K : k <= j
             t == edges[k].data.edgeType
         IN  AggregatedType(K \ {k},
                            IF soFar = "none" \/ Strength(t) > Strength(soFar)
                            THEN t ELSE soFar)

Shown(e) == [id |-> e.id, source |-> e.source, target |-> e.target,
             edgeType |-> e.data.edgeType]

\* C13 as claimed: the stored edges are what they were after the derived edge view is
\* computed, and after toggleGroupCollapse(g) twice on an expanded group g the
\* stored edges are unchanged and the view holds exactly the stored edges, with
\* their source, target and edgeType, and no synthetic edge.
C13_AsClaimed ==
    \A i \in 1..Len(log) :
        (/\ i + 1 <= Len(log)
         /\ log[i].op = "toggleGroupCollapse"
         /\ log[i + 1].op = "toggleGroupCollapse"
         /\ log[i + 1].args.groupId = log[i].args.groupId
         /\ log[i].args.groupId \notin log[i].before.collapsedGroups)
        => LET b == log[i].before
               a == After(i + 1)
               view == ViewOf(a)
           IN  /\ a.edges = b.edges
               /\ Len(view) = Len(b.edges)
               /\ \A k \in 1..Len(view) :
                     /\ Shown(view[k]) = Shown(b.edges[k])
                     /\ "synthetic" \notin DOMAIN view[k].data

\* C13, amended: the stored edges are what they were after the derived edge view
\* is computed, and after toggleGroupCollapse(g) twice on an expanded group g the
\* stored edges are unchanged and the view is the view from before the collapse,
\* with no end of an edge replaced by g; when no other group is collapsed it holds
\* exactly the stored edges, with their source, target and edgeType, and no
\* synthetic edge.
C13_ExpandRestores ==
    \A i \in 1..Len(log) :
        (/\ i + 1 <= Len(log)
         /\ log[i].op = "toggleGroupCollapse"
         /\ log[i + 1].op = "toggleGroupCollapse"
         /\ log[i + 1].args.groupId = log[i].args.groupId
         /\ log[i].args.groupId \notin log[i].before.collapsedGroups)
        => LET b == log[i].before
               a == After(i + 1)
               g == log[i].args.groupId
               view == ViewOf(a)
           IN  /\ a.edges = b.edges
               /\ view = ViewOf(b)
               /\ \A id \in DOMAIN childToGroup(a.nodes, a.collapsedGroups) :
                     childToGroup(a.nodes, a.collapsedGroups)[id] # g
               /\ b.collapsedGroups = {} =>
                     /\ Len(view) = Len(b.edges)
                     /\ \A k \in 1..Len(view) :
                           /\ Shown(view[k]) = Shown(b.edges[k])
                           /\ "synthetic" \notin DOMAIN view[k].data

\* A group that hid two edges behind one synthetic edge was expanded again.
C13_Witness ==
    \E i \in 1..Len(log) :
        /\ i + 1 <= Len(log)
        /\ log[i].op = "toggleGroupCollapse"
        /\ log[i + 1].op = "toggleGroupCollapse"
        /\ log[i].args.groupId \notin log[i].before.collapsedGroups
        /\ Len(log[i].before.edges) = 2
        /\ log[i].before.edges[1].data.edgeType # log[i].before.edges[2].data.edgeType
        /\ Len(ViewOf(After(i))) = 1
        /\ "synthetic" \in DOMAIN ViewOf(After(i))[1].data
        /\ ViewOf(After(i))[1].data.count = 2
        /\ Len(ViewOf(After(i + 1))) = 2

\* The position on the canvas of the node with id in store s: its position, plus
\* its parent's when it has one.
CanvasPosition(s, id) ==
    LET n == FindNode(s.nodes, id)
    IN  IF n.parentId # "undefined" /\ HasNode(s.nodes, n.parentId)
        THEN [x |-> n.position.x + FindNode(s.nodes, n.parentId).position.x,
              y |-> n.position.y + FindNode(s.nodes, n.parentId).position.y]
        ELSE n.position

\* Call i is moveNodeToGroup of a task of the store into a group of the store.
MovesIntoGroup(i) ==
    /\ log[i].op = "moveNodeToGroup"
    /\ HasNode(log[i].before.nodes, log[i].args.nodeId)
    /\ FindNode(log[i].before.nodes, log[i].args.nodeId).type = "task"
    /\ HasNode(log[i].before.nodes, log[i].args.groupId)
    /\ FindNode(log[i].before.nodes, log[i].args.groupId).type = "group"

\* C21: after moveNodeToGroup(n, g), for a task n with or without a parent and an
\* existing group g, n has parentId g and position (max(10, ax - gx),
\* max(40, ay - gy)), (ax, ay) being n's position on the canvas before the call
\* and (gx, gy) the position of g; so x >= 10 and y >= 40.
C21_EnterGroup ==
    \A i \in 1..Len(log) :
        MovesIntoGroup(i) =>
            LET b == log[i].before
                n == FindNode(After(i).nodes, log[i].args.nodeId)
                a == CanvasPosition(b, log[i].args.nodeId)
                g == FindNode(b.nodes, log[i].args.groupId).position
            IN  /\ n.parentId = log[i].args.groupId
                /\ n.position = [x |-> Max(10, a.x - g.x), y |-> Max(40, a.y - g.y)]
                /\ n.position.x >= 10
                /\ n.position.y >= 40

\* Call i is moveNodeToGroup(n, none) for a task n whose parent is a group of the store.
MovesOutOfGroup(i) ==
    /\ log[i].op = "moveNodeToGroup"
    /\ log[i].args.groupId = "undefined"
    /\ HasNode(log[i].before.nodes, log[i].args.nodeId)
    /\ LET n == FindNode(log[i].before.nodes, log[i].args.nodeId)
       IN  /\ n.type = "task"
           /\ HasNode(log[i].before.nodes, n.parentId)
           /\ FindNode(log[i].before.nodes, n.parentId).type = "group"

\* C22: moveNodeToGroup(n, none), for a task n whose parent is group g, removes the
\* parentId and sets n's position to its position in the group plus the position
\* g has then; so moving n into g and straight out again returns n to the
\* position on the canvas it had, whenever the entry was not clamped.
C22_LeaveGroup ==
    \A i \in 1..Len(log) :
        /\ MovesOutOfGroup(i) =>
              LET b == FindNode(log[i].before.nodes, log[i].args.nodeId)
                  g == FindNode(log[i].before.nodes, b.parentId).position
                  n == FindNode(After(i).nodes, log[i].args.nodeId)
              IN  /\ n.parentId = "undefined"
                  /\ n.position = [x |-> b.position.x + g.x, y |-> b.position.y + g.y]
        /\ (/\ i + 1 <= Len(log)
            /\ MovesIntoGroup(i)
            /\ MovesOutOfGroup(i + 1)
            /\ log[i + 1].args.nodeId = log[i].args.nodeId
            /\ LET b == FindNode(log[i].before.nodes, log[i].args.nodeId).position
                   g == FindNode(log[i].before.nodes, log[i].args.groupId).position
               IN  FindNode(After(i).nodes, log[i].args.nodeId).position =
                       [x |-> b.x - g.x, y |-> b.y - g.y])
           => CanvasPosition(After(i + 1), log[i].args.nodeId) =
                  CanvasPosition(log[i].before, log[i].args.nodeId)

\* The arguments of call i make moveNodeToGroup a no-op: the node does not exist
\* or is a group, or a group id is given that names no node.
MoveRejected(i) ==
    /\ log[i].op = "moveNodeToGroup"
    /\ \/ ~HasNode(log[i].before.nodes, log[i].args.nodeId)
       \/ FindNode(log[i].before.nodes, log[i].args.nodeId).type = "group"
       \/ /\ log[i].args.groupId # "undefined"
          /\ ~HasNode(log[i].before.nodes, log[i].args.groupId)

\* C23: moveNodeToGroup(nodeId, groupId) leaves nodes, edges and both history
\* stacks unchanged when nodeId is a group node, when nodeId does not exist, or
\* when groupId is given and no node has that id.
C23_MoveRejected ==
    \A i \in 1..Len(log) :
        MoveRejected(i) =>
            /\ Graph(After(i)) = Graph(log[i].before)
            /\ After(i).past = log[i].before.past
            /\ After(i).future = log[i].before.future

\* A group was asked to move while both stacks held a slice, and a task was asked
\* to move into a group that does not exist.
C23_Witness ==
    /\ \E i \in 1..Len(log) :
          /\ MoveRejected(i)
          /\ log[i].before.past # <<>> /\ log[i].before.future # <<>>
          /\ HasNode(log[i].before.nodes, log[i].args.nodeId)
          /\ FindNode(log[i].before.nodes, log[i].args.nodeId).type = "group"
    /\ \E i \in 1..Len(log) :
          /\ MoveRejected(i)
          /\ HasNode(log[i].before.nodes, log[i].args.nodeId)
          /\ FindNode(log[i].before.nodes, log[i].args.nodeId).type = "task"
          /\ log[i].args.groupId = MissingId

\* C30: in every reachable state collapsedGroups is the set of the ids of the
\* group nodes whose collapsed flag is true, also after undo or redo of a
\* toggleGroupCollapse and after deleteNode of a collapsed group.
C30_CollapsedSetMatchesFlags ==
    collapsedGroups =
        {nodes[i].id : i \in {j \in 1..Len(nodes) :
                                 nodes[j].type = "group" /\ nodes[j].data.collapsed}}

\* C26: every structural mutation that changes the graph records the (nodes,
\* edges) it was made on as the newest slice of past, and an undo right after it
\* restores exactly those (nodes, edges).
C26_SnapshotBeforeMutation ==
    \A i \in 1..Len(log) :
        (log[i].op \in StructuralOps /\ Graph(After(i)) # Graph(log[i].before))
        => /\ After(i).past # <<>>
           /\ After(i).past[Len(After(i).past)] = Graph(log[i].before)
           /\ (i + 1 <= Len(log) /\ log[i + 1].op = "undo")
              => Graph(After(i + 1)) = Graph(log[i].before)

\* A node of a store with two slices of history was deleted, or moved into a
\* group, and that was undone at once.
C26_Witness ==
    \E i \in 1..Len(log) :
        /\ i + 1 <= Len(log)
        /\ log[i].op \in {"deleteNode", "moveNodeToGroup"}
        /\ log[i + 1].op = "undo"
        /\ Graph(After(i)) # Graph(log[i].before)
        /\ Len(log[i].before.past) >= 2
        /\ Graph(After(i + 1)) = Graph(log[i].before)

\* The defaults of the data fields of a task: dueDate absent is null.
TaskDefaults ==
    [title |-> "Untitled", priority |-> "medium", department |-> "", labels |-> <<>>,
     assignee |-> "", dueDate |-> "null"]

\* C25: addNode(position, partialData) appends exactly one task node, with an id
\* that no node had before; each data field has the supplied value when one is
\* supplied and its default otherwise; the nodes there were and all edges are
\* unchanged.
C25_AddNode ==
    \A i \in 1..Len(log) :
        log[i].op = "addNode" =>
            LET b == log[i].before
                a == After(i)
                n == a.nodes[Len(a.nodes)]
            IN  /\ Len(a.nodes) = Len(b.nodes) + 1
                /\ SubSeq(a.nodes, 1, Len(b.nodes)) = b.nodes
                /\ a.edges = b.edges
                /\ n.type = "task"
                /\ n.id \notin NodeIdsOf(b)
                /\ n.position = log[i].args.position
                /\ \A f \in DOMAIN TaskDefaults :
                      n.data[f] = IF f \in DOMAIN log[i].args.data
                                  THEN log[i].args.data[f]
                                  ELSE TaskDefaults[f]

\* A task was added with its department and assignee supplied and its title left
\* out, to a store that held two nodes and an edge.
C25_Witness ==
    \E i \in 1..Len(log) :
        /\ log[i].op = "addNode"
        /\ DOMAIN log[i].args.data = {"department", "assignee"}
        /\ Len(log[i].before.nodes) = 2
        /\ Len(log[i].before.edges) = 1
        /\ After(i).nodes[3].data.title = "Untitled"
        /\ After(i).nodes[3].data.department = "Engineering"

\* Call i is an addEdge that asks for neither a self-loop nor an edge the store
\* holds with the same source, target and handles.
AddsEdge(i) ==
    /\ log[i].op = "addEdge"
    /\ log[i].args.source # log[i].args.target
    /\ \A e \in Range(log[i].before.edges) :
          EdgeKey(e) # <<log[i].args.source, log[i].args.target,
                         OrNull(log[i].args.sourceHandle),
                         OrNull(log[i].args.targetHandle)>>

\* Every edge the store holds before and after call i has the type it had.
TypesKept(i) ==
    \A e \in Range(log[i].before.edges), f \in Range(After(i).edges) :
        e.id = f.id => e.data.edgeType = f.data.edgeType

\* A successful addEdge appends one edge with the requested source and target, an
\* id no edge had and edgeType blocks, and leaves the edges there were and all
\* nodes unchanged.
AddEdgeAppends(i) ==
    LET b == log[i].before
        a == After(i)
        e == a.edges[Len(a.edges)]
    IN  /\ Len(a.edges) = Len(b.edges) + 1
        /\ SubSeq(a.edges, 1, Len(b.edges)) = b.edges
        /\ a.nodes = b.nodes
        /\ e.source = log[i].args.source
        /\ e.target = log[i].args.target
        /\ e.id \notin EdgeIdsOf(b)
        /\ e.data.edgeType = "blocks"

InCollapsed(s) ==
    {s.nodes[i].id : i \in {j \in 1..Len(s.nodes) :
                               /\ s.nodes[j].parentId # "undefined"
                               /\ s.nodes[j].parentId \in s.collapsedGroups}}

\* The end of a stored edge in the view of store s: the collapsed group of the
\* node, or the node itself.
ViewEnd(s, id) ==
    IF id \in InCollapsed(s)
    THEN LET i == CHOOSE i \in 1..Len(s.nodes) : s.nodes[i].id = id
         IN  s.nodes[i].parentId
    ELSE id

\* Neither end of stored edge e is a child of a collapsed group of s.
PassesThrough(s, e) == e.source \notin InCollapsed(s) /\ e.target \notin InCollapsed(s)

\* Stored edge e is internal to one collapsed group of s.
Internal(s, e) ==
    /\ ~PassesThrough(s, e)
    /\ ViewEnd(s, e.source) = ViewEnd(s, e.target)

\* The view edges that are synthetic.
Synthetics(view) == {k \in 1..Len(view) : "synthetic" \in DOMAIN view[k].data}

\* The sum of the counts of the synthetic edges at positions K of view.
RECURSIVE CountSum(_, _)
CountSum(view, K) ==
    IF K = {} THEN 0
    ELSE LET k == CHOOSE k \in K : TRUE
         IN  view[k].data.count + CountSum(view, K \ {k})

\* C28: in the derived edge view a stored edge neither of whose ends is a child of
\* a collapsed group appears once, not synthetic, with its source, target and type;
\* a stored edge whose remapped ends are equal (both ends in one collapsed group,
\* or one end the group itself) appears neither as itself nor in a synthetic edge;
\* and when no node has a parent in the collapsed set the view is the stored edges
\* in their order with no synthetic edge.
C28_PassThroughAndDropped ==
    LET s == StoreState
        view == ViewOf(s)
        real == {k \in 1..Len(view) : k \notin Synthetics(view)}
        passing == {k \in 1..Len(edges) : PassesThrough(s, edges[k])}
        internal == {k \in 1..Len(edges) : Internal(s, edges[k])}
    IN  /\ \A k \in passing :
              /\ Cardinality({j \in 1..Len(view) : view[j].id = edges[k].id}) = 1
              /\ \E j \in real : Shown(view[j]) = Shown(edges[k])
        /\ \A k \in internal : \A j \in 1..Len(view) : view[j].id # edges[k].id
        /\ \A j \in 1..Len(view) : view[j].source # view[j].target
        /\ Cardinality(real) = Cardinality(passing)
        /\ CountSum(view, Synthetics(view))
              = Len(edges) - Cardinality(passing) - Cardinality(internal)
        /\ InCollapsed(s) = {}
           => /\ Len(view) = Len(edges)
              /\ \A k \in 1..Len(edges) : Shown(view[k]) = Shown(edges[k])
              /\ Synthetics(view) = {}

\* A group is collapsed that holds both ends of one stored edge, while another
\* stored edge has no end among its children: the view is that other edge alone.
C28_Witness ==
    /\ Len(edges) = 2
    /\ \E k \in 1..2 :
          /\ Internal(StoreState, edges[k])
          /\ edges[k].source \in InCollapsed(StoreState)
          /\ edges[k].target \in InCollapsed(StoreState)
          /\ PassesThrough(StoreState, edges[3 - k])
          /\ Len(displayEdges) = 1
          /\ displayEdges[1].id = edges[3 - k].id

\* C29: in the derived edge view every pass-through edge of type blocks is fully
\* opaque whatever the filters select, a pass-through edge of another type is
\* fully opaque if both its ends are in the visible-id set and dimmed otherwise,
\* and every synthetic edge is fully opaque.
C29_Opacity ==
    LET view == ViewOf(StoreState)
        vis == getFilteredNodeIds(nodes, filters)
    IN  \A j \in 1..Len(view) :
            IF j \in Synthetics(view) THEN view[j].style.opacity = "1"
            ELSE IF view[j].data.edgeType = "blocks" THEN view[j].style.opacity = "1"
            ELSE IF view[j].source \in vis /\ view[j].target \in vis
                 THEN view[j].style.opacity = "1"
                 ELSE view[j].style.opacity = "0.1"

\* The filters hide a task; the view holds a dimmed edge at it, an opaque synthetic
\* edge at it, and (in the store before the collapse) a blocks edge at it.
C29_Witness ==
    LET view == ViewOf(StoreState)
        vis == getFilteredNodeIds(nodes, filters)
    IN  /\ \E j \in 1..Len(view) :
              /\ j \notin Synthetics(view)
              /\ view[j].style.opacity = "0.1"
        /\ \E j \in Synthetics(view) :
              /\ view[j].target \notin vis
              /\ view[j].style.opacity = "1"
        /\ \E i \in 1..Len(log) :
              LET was == ViewOf(log[i].before)
                  seen == getFilteredNodeIds(log[i].before.nodes, log[i].before.filters)
              IN  \E j \in 1..Len(was) :
                      /\ j \notin Synthetics(was)
                      /\ was[j].data.edgeType = "blocks"
                      /\ was[j].target \notin seen
                      /\ was[j].style.opacity = "1"

\* The edges a history slice or the store holds that are marked synthetic or carry
\* a count.
SyntheticIn(es) ==
    {k \in 1..Len(es) : "synthetic" \in DOMAIN es[k].data \/ "count" \in DOMAIN es[k].data}

\* C24: no edge of the store's edge collection and no edge of a slice of the past
\* or future stack is marked synthetic or carries a count.
C24_SyntheticNeverStored ==
    /\ SyntheticIn(edges) = {}
    /\ \A k \in 1..Len(past) : SyntheticIn(past[k].edges) = {}
    /\ \A k \in 1..Len(future) : SyntheticIn(future[k].edges) = {}

\* The view holds a synthetic edge while both stacks hold slices with edges, and
\* the canvas has reported a change of that synthetic edge to the store.
C24_Witness ==
    /\ Synthetics(displayEdges) # {}
    /\ \E k \in 1..Len(past) : past[k].edges # <<>>
    /\ \E k \in 1..Len(future) : future[k].edges # <<>>
    /\ \E i \in 1..Len(log) :
          /\ log[i].op = "onEdgesChange"
          /\ \E id \in log[i].args.removed :
                \E j \in Synthetics(ViewOf(log[i].before)) :
                    ViewOf(log[i].before)[j].id = id

\* C31: a node's hidden flag is set exactly when the node has a parentId that is in
\* the collapsed-group-id set; a node moved out of a collapsed group is not hidden
\* and a node moved into a collapsed group is hidden.
C31_HiddenIffParentCollapsed ==
    \A i \in 1..Len(nodes) :
        nodes[i].hidden = "true"
            <=> (nodes[i].parentId # "undefined" /\ nodes[i].parentId \in collapsedGroups)

\* C32: with setSelectedNode only ever called with none or the id of a node in
\* nodes, selectedNodeId is none or the id of a node in nodes in every reachable
\* state, also after undo or redo takes the selected node out of nodes.
C32_SelectionNamesNode ==
    (\A i \in 1..Len(log) :
        log[i].op = "setSelectedNode"
            => log[i].args.id = "null" \/ log[i].args.id \in NodeIdsOf(log[i].before))
    => (selectedNodeId = "null" \/ selectedNodeId \in NodeIds)

\* The stored edges of store s one end of which is the id of no node of s.
Dangling(s) ==
    {k \in 1..Len(s.edges) :
        s.edges[k].source \notin NodeIdsOf(s) \/ s.edges[k].target \notin NodeIdsOf(s)}

\* C33: with addEdge only ever called with the ids of nodes in nodes, in every
\* state reached through addNode, addGroupNode, updateNode, deleteNode, addEdge,
\* removeEdge, setPreset, undo and redo the source and the target of every stored
\* edge are ids of nodes in nodes.
C33_NoDanglingEdge ==
    (\A i \in 1..Len(log) :
        log[i].op = "addEdge"
            => /\ log[i].args.source \in NodeIdsOf(log[i].before)
               /\ log[i].args.target \in NodeIdsOf(log[i].before))
    => Dangling(StoreState) = {}

\* A node with an edge was deleted and the deletion undone, which brought the node
\* and its edge back.
C33_Witness ==
    /\ edges # <<>>
    /\ \E i \in 1..Len(log) :
          /\ i + 1 <= Len(log)
          /\ log[i].op = "deleteNode"
          /\ \E k \in 1..Len(log[i].before.edges) :
                log[i].args.id \in {log[i].before.edges[k].source,
                                    log[i].before.edges[k].target}
          /\ After(i).edges = <<>>
          /\ log[i + 1].op = "undo"
          /\ After(i + 1).edges = log[i].before.edges

\* C36: with addNode and updateNode only ever assigning a department that is empty
\* or a category name of the preset active at the call, the department of every
\* task node is empty or a category name of the active preset in every reachable
\* state, also after setPreset followed by undo or redo.
C36_DepartmentOfActivePreset ==
    (\A i \in 1..Len(log) :
        (log[i].op \in {"addNode", "updateNode"} /\ "department" \in DOMAIN log[i].args.data)
            => log[i].args.data.department
                  \in {""} \cup CategoriesOf(log[i].before.activePresetId))
    => \A k \in 1..Len(nodes) :
          nodes[k].type = "task"
              => nodes[k].data.department \in {""} \cup CategoriesOf(activePresetId)

\* The positions of the nodes of store s, by id.
PositionsOf(s) == {<<s.nodes[k].id, s.nodes[k].position>> : k \in 1..Len(s.nodes)}

\* C34: after a completed drag gesture, at least one intermediate position report
\* followed by the settling report through onNodesChange, a single undo restores
\* every node to the position it had before the gesture began.
C34_UndoRestoresDragStart ==
    \A i \in 1..Len(log), j \in 1..Len(log) :
        (/\ Gesture(i, j)
         /\ i < j
         /\ i = 1 \/ ~Intermediate(i - 1)
         /\ j + 1 <= Len(log)
         /\ log[j + 1].op = "undo")
        => PositionsOf(After(j + 1)) = PositionsOf(log[i].before)

\* Calls i .. i + 2k - 1 are k undos followed by k redos.
UndosThenRedos(i, k) ==
    /\ i + 2 * k - 1 <= Len(log)
    /\ \A m \in i..(i + k - 1) : log[m].op = "undo"
    /\ \A m \in (i + k)..(i + 2 * k - 1) : log[m].op = "redo"

\* C35: k undos followed by k redos, k at most the length of the past stack,
\* restore nodes, edges, the past stack and the future stack to their values
\* before the first undo; an undo of a non-empty past moves one slice's worth from
\* past to future and a redo of a non-empty future moves one back, and the sum of
\* the two lengths is unchanged by undo and redo.
C35_UndosThenRedos ==
    /\ \A i \in 1..Len(log), k \in 1..Len(log) :
          (UndosThenRedos(i, k) /\ k <= Len(log[i].before.past))
          => LET b == log[i].before
                 a == After(i + 2 * k - 1)
             IN  /\ a.nodes = b.nodes
                 /\ a.edges = b.edges
                 /\ a.past = b.past
                 /\ a.future = b.future
    /\ \A i \in 1..Len(log) :
          LET b == log[i].before
              a == After(i)
          IN  /\ log[i].op \in {"undo", "redo"}
                 => Len(a.past) + Len(a.future) = Len(b.past) + Len(b.future)
              /\ (log[i].op = "undo" /\ b.past # <<>>)
                 => /\ Len(a.past) = Len(b.past) - 1
                    /\ Len(a.future) = Len(b.future) + 1
              /\ (log[i].op = "redo" /\ b.future # <<>>)
                 => /\ Len(a.past) = Len(b.past) + 1
                    /\ Len(a.future) = Len(b.future) - 1

\* Two undos then two redos were made on a store with two slices or more in the
\* past stack, and the undos changed the nodes.
C35_Witness ==
    \E i \in 1..Len(log) :
        /\ UndosThenRedos(i, 2)
        /\ Len(log[i].before.past) >= 2
        /\ log[i].before.nodes # After(i + 1).nodes

\* The orderings of a list of n elements.
Orderings(n) == {p \in [1..n -> 1..n] : \A a, b \in 1..n : p[a] = p[b] => a = b}

\* The synthetic edges of a view, each as source, target, count and edgeType.
SyntheticSet(view) ==
    {[source |-> view[j].source, target |-> view[j].target,
      count |-> view[j].data.count, edgeType |-> view[j].data.edgeType] :
        j \in Synthetics(view)}

\* The stored edges of store s that the synthetic edge from a to b stands for.
Contributing(s, a, b) ==
    {k \in 1..Len(s.edges) :
        /\ ~PassesThrough(s, s.edges[k])
        /\ ViewEnd(s, s.edges[k].source) = a
        /\ ViewEnd(s, s.edges[k].target) = b}

\* C37: for given stored edges, nodes and collapsed groups the set of synthetic
\* edges of the derived view, each with its source, target, count and edgeType, is
\* the same for every ordering of the stored edge list; the edgeType of a synthetic
\* edge is the type of maximum strength among the stored edges it stands for.
C37_OrderIndependent ==
    LET s == StoreState
        vis == getFilteredNodeIds(nodes, filters)
    IN  /\ \A p \in Orderings(Len(edges)) :
              SyntheticSet(displayEdgesOf(nodes, [k \in 1..Len(edges) |-> edges[p[k]]],
                                          collapsedGroups, vis))
                  = SyntheticSet(ViewOf(s))
        /\ \A y \in SyntheticSet(ViewOf(s)) :
              LET K == Contributing(s, y.source, y.target)
              IN  /\ y.count = Cardinality(K)
                  /\ \E k \in K : edges[k].data.edgeType = y.edgeType
                  /\ \A k \in K : Strength(edges[k].data.edgeType) <= Strength(y.edgeType)

\* One synthetic edge stands for two stored edges of different types, the weaker
\* stored first.
C37_Witness ==
    /\ Len(edges) = 2
    /\ Strength(edges[1].data.edgeType) < Strength(edges[2].data.edgeType)
    /\ \E y \in SyntheticSet(displayEdges) :
          /\ y.count = 2
          /\ y.edgeType = edges[2].data.edgeType

\* C38: every stored edge is accounted for exactly once in the derived view: the
\* number of pass-through edges, the sum of count over the synthetic edges and the
\* number of dropped internal edges add up to the number of stored edges, and
\* every synthetic edge has a count of 1 or more.
C38_EveryEdgeOnce ==
    LET view == ViewOf(StoreState)
        passedThrough == {j \in 1..Len(view) : j \notin Synthetics(view)}
        dropped == {k \in 1..Len(edges) : Internal(StoreState, edges[k])}
    IN  /\ Cardinality(passedThrough) + CountSum(view, Synthetics(view))
              + Cardinality(dropped) = Len(edges)
        /\ \A j \in Synthetics(view) : view[j].data.count >= 1

\* The store holds an edge that passes through, one that is dropped and one that a
\* synthetic edge stands for.
C38_Witness ==
    LET view == ViewOf(StoreState)
    IN  /\ Len(edges) = 3
        /\ Len(view) = 2
        /\ Cardinality(Synthetics(view)) = 1
        /\ \E k \in 1..Len(edges) : Internal(StoreState, edges[k])

\* The part of store s that is no part of a history slice and no history stack.
ViewStateOf(s) ==
    [selectedNodeId |-> s.selectedNodeId, taskPanelOpen |-> s.taskPanelOpen,
     filters |-> s.filters, activePresetId |-> s.activePresetId,
     collapsedGroups |-> s.collapsedGroups]

\* C39: undo and redo change only nodes, edges and the two history stacks:
\* selectedNodeId, taskPanelOpen, filters, activePresetId and the
\* collapsed-group-id set are after undo or redo what they were before.
C39_UndoRedoFrame ==
    \A i \in 1..Len(log) :
        log[i].op \in {"undo", "redo"} => ViewStateOf(After(i)) = ViewStateOf(log[i].before)

\* A redo, and so an undo before it, changed the nodes of a store with a node
\* selected, the task panel open, a filter set, the second preset active and a
\* group collapsed.
C39_Witness ==
    \E i \in 1..Len(log) :
        /\ log[i].op = "redo"
        /\ After(i).nodes # log[i].before.nodes
        /\ log[i].before.selectedNodeId # "null"
        /\ log[i].before.taskPanelOpen
        /\ log[i].before.filters # defaultFilters
        /\ log[i].before.activePresetId = "startup"
        /\ log[i].before.collapsedGroups # {}

====
